---- MODULE Spec2Model ----
(***************************************************************************)
(* The coordination runtime of the agentic learning platform:              *)
(* MasterOrchestrator (registry, router, workflow executor) of             *)
(* backend/app/agents/orchestrator.py, the BaseAgent contract of           *)
(* backend/app/agents/base_agent.py and the two providers the application  *)
(* registers, ProfilingAgent and LearningPathAgent.                        *)
(*                                                                         *)
(* Python values are modelled as follows.  Optional[x] is a sequence of    *)
(* length 0 (None) or 1.  A dict is a function whose domain is its key     *)
(* set.  An f-string error message is the sequence of its parts.           *)
(***************************************************************************)
EXTENDS Integers, Sequences, FiniteSets, TLC

\* agents:  the registry self.agents of the orchestrator
\* calls:   the calls of route_message and execute_workflow in progress
\* reg_log: the register_agent / unregister_agent calls made so far (kept by
\*          the specification of the registry alone, SpecRegistry)
\* status_out: what the last get_system_status call returned or raised
\* redis:   the entries of the response cache that have not expired
VARIABLES agents, calls, reg_log, status_out, redis

vars == <<agents, calls, reg_log, status_out, redis>>

----------------------------------------------------------------------------
(* Bounds of the model *)

\* payload and result values range over 1..MaxVal
MaxVal == 2
\* SpecRegistry makes at most MaxRegOps registry calls
MaxRegOps == 4
\* in Spec a call begins while the store holds at most MaxHeld entries
MaxHeld == 0

----------------------------------------------------------------------------
(* Python values *)

None == <<>>
Some(x) == <<x>>
IsNone(o) == Len(o) = 0

EmptyMap == [k \in {} |-> 0]
Map1(key, v) == [k \in {key} |-> v]
Map2(k1, v1, k2, v2) == [k \in {k1, k2} |-> IF k = k1 THEN v1 ELSE v2]

\* Python truthiness of an Optional[Dict]: not None and not empty
Truthy(r) == ~IsNone(r) /\ DOMAIN r[1] # {}

Vals == 1..MaxVal
Keys == {"user_id", "goal", "skills"}
Maps == UNION {[D -> Vals] : D \in SUBSET Keys}

\* AgentStatus
IDLE == "idle"
PROCESSING == "processing"
COMPLETED == "completed"
ERROR == "error"
WAITING == "waiting"
AgentStatus == {IDLE, PROCESSING, COMPLETED, ERROR, WAITING}

\* AgentMessage; context, timestamp and message_id do not influence routing
AgentMessage(from, to, type, payload) ==
    [from_agent |-> from, to_agent |-> to, message_type |-> type, payload |-> payload]

\* AgentResponse; metadata is a set of (key, value) pairs, of which only
\* error_type is kept, and next_actions is left out: the router reads neither
AgentResponse(name, status, result, error, time, metadata) ==
    [agent_name |-> name, status |-> status, result |-> result, error |-> error,
     execution_time |-> time, metadata |-> metadata]

NoMetadata == {}

----------------------------------------------------------------------------
(* MasterOrchestrator.__init__ *)

OrchestratorName == "master_orchestrator"

routing_rules ==
    [t \in {"profile_analysis", "generate_learning_path", "curate_content",
            "track_progress", "motivational_support", "assess_skills",
            "industry_insights"} |->
        CASE t = "profile_analysis" -> "profiling_agent"
          [] t = "generate_learning_path" -> "learning_path_agent"
          [] t = "curate_content" -> "content_curator_agent"
          [] t = "track_progress" -> "progress_tracker_agent"
          [] t = "motivational_support" -> "motivation_coach_agent"
          [] t = "assess_skills" -> "assessment_agent"
          [] t = "industry_insights" -> "industry_intelligence_agent"]

workflows ==
    [w \in {"new_user_onboarding", "progress_check", "path_adaptation"} |->
        CASE w = "new_user_onboarding" ->
                <<"profile_analysis", "generate_learning_path", "curate_content">>
          [] w = "progress_check" ->
                <<"track_progress", "assess_skills", "motivational_support">>
          [] w = "path_adaptation" ->
                <<"track_progress", "profile_analysis", "generate_learning_path">>]

----------------------------------------------------------------------------
(* BaseAgent and the providers *)

\* an exception: its type name and str(e)
Exception(type, msg) == [type |-> type, msg |-> msg]

\* the outcome of a call that may raise
Returned(value) == [raised |-> FALSE, value |-> Some(value), exc |-> None]
Raised(e) == [raised |-> TRUE, value |-> None, exc |-> Some(e)]

\* BaseAgent.__init__ plus the subclass's capabilities; kind is the class
BaseAgent(name, version, kind, capabilities) ==
    [name |-> name, version |-> version, kind |-> kind, capabilities |-> capabilities]

can_handle_always(agent, message_type) == TRUE

\* BaseAgent.can_handle
can_handle(agent, message_type) == message_type \in agent.capabilities

\* BaseAgent.pre_process and post_process log and return their argument
pre_process(agent, message) == message
post_process(agent, response) == response

\* (an error response without the exception's type)
handle_error_plain(agent, e) ==
    AgentResponse(agent.name, ERROR, None, Some(<<e.msg>>), None, NoMetadata)

\* BaseAgent.handle_error
handle_error(agent, e) ==
    AgentResponse(agent.name, ERROR, None, Some(<<e.msg>>), None,
                  {<<"error_type", e.type>>})

ProfilingAgent ==
    BaseAgent("profiling_agent", "1.0.0", "ProfilingAgent",
              {"profile_analysis", "skill_assessment", "learning_style_detection",
               "goal_extraction", "constraint_mapping", "personality_analysis"})

LearningPathAgent ==
    BaseAgent("learning_path_agent", "1.0.0", "LearningPathAgent",
              {"generate_learning_path", "adapt_learning_path", "optimize_sequence",
               "milestone_definition", "prerequisite_analysis",
               "difficulty_calibration"})

\* required_fields of ProfilingAgent.validate_input
ProfilingRequired(message_type) ==
    CASE message_type = "profile_analysis" -> {"user_id"}
      [] message_type = "skill_assessment" -> {"user_id", "assessment_data"}
      [] message_type = "learning_style_detection" -> {"user_id", "preference_data"}
      [] message_type = "goal_extraction" -> {"user_id", "goal_data"}
      [] OTHER -> {}

\* required_fields of LearningPathAgent.validate_input
LearningPathRequired(message_type) ==
    CASE message_type = "generate_learning_path" -> {"user_id", "goal"}
      [] message_type = "adapt_learning_path" -> {"user_id", "path_id", "adaptation_reason"}
      [] message_type = "optimize_sequence" -> {"path_data"}
      [] OTHER -> {}

\* validate_input of the two providers
validate_input(agent, message) ==
    LET required == IF agent.kind = "ProfilingAgent"
                    THEN ProfilingRequired(message.message_type)
                    ELSE LearningPathRequired(message.message_type)
    IN  \A field \in required : field \in DOMAIN message.payload

\* message types ProfilingAgent.process / LearningPathAgent.process dispatch on
ProfilingHandled ==
    {"profile_analysis", "skill_assessment", "learning_style_detection", "goal_extraction"}
LearningPathHandled ==
    {"generate_learning_path", "adapt_learning_path", "optimize_sequence"}

\* the method process calls for a message type it has a branch for
handler_name(agent, message_type) ==
    IF agent.kind = "ProfilingAgent"
    THEN CASE message_type = "profile_analysis" -> "_analyze_complete_profile"
           [] message_type = "skill_assessment" -> "_assess_skills"
           [] message_type = "learning_style_detection" -> "_detect_learning_style"
           [] message_type = "goal_extraction" -> "_extract_goals"
    ELSE CASE message_type = "generate_learning_path" -> "_generate_learning_path"
           [] message_type = "adapt_learning_path" -> "_adapt_learning_path"
           [] message_type = "optimize_sequence" -> "_optimize_sequence"

\* the handlers the two classes define; process names five more that no
\* class defines
defined_methods == {"_analyze_complete_profile", "_generate_learning_path"}

\* self.<method>: the lookup of an attribute the object does not have
getattr(agent, method) ==
    IF method \in defined_methods THEN Returned(method)
    ELSE Raised(Exception("AttributeError",
                "'" \o agent.kind \o "' object has no attribute '" \o method \o "'"))

\* the replacement fields of analysis_templates["skill_assessment"] and of
\* path_templates["comprehensive_path"] up to the first one that the format
\* call has no argument for: the braces of the JSON sample in the template
\* text are not doubled, so str.format reads "{skill: confidence_level}" as
\* the field skill, and "{" followed by a line break and "title": as the
\* field made of the line break, three blanks and "title" in double quotes
\* (written here as repr shows it)
skill_assessment_fields ==
    <<"user_info", "experience", "education", "projects", "self_assessment", "skill">>
comprehensive_path_fields ==
    <<"user_profile", "primary_goal", "timeline", "time_commitment", "current_level",
      "current_skills", "learning_style", "content_preferences", "\\n   \"title\"">>

\* the keyword arguments of the two format calls
skill_assessment_kwargs ==
    {"user_info", "experience", "education", "projects", "self_assessment"}
comprehensive_path_kwargs ==
    {"user_profile", "primary_goal", "timeline", "time_commitment", "current_level",
     "current_skills", "learning_style", "content_preferences"}

\* str.format: KeyError on the first field without an argument; str of a
\* KeyError is the repr of the key
str_format(fields, kwargs) ==
    LET missing == {i \in 1..Len(fields) : fields[i] \notin kwargs}
    IN  IF missing = {} THEN Returned("prompt")
        ELSE Raised(Exception("KeyError",
                "'" \o fields[CHOOSE i \in missing : \A j \in missing : i <= j] \o "'"))

\* payload[key]
getitem(payload, key) ==
    IF key \in DOMAIN payload THEN Returned(payload[key])
    ELSE Raised(Exception("KeyError", "'" \o key \o "'"))

\* what the storage session can raise from a query
StorageFaults ==
    {Exception("ConnectionError", "db down"), Exception("TimeoutError", "")}

\* a value in the column current_skills: a score (in tenths) or a text
Scores == {<<"float", 5>>, <<"float", 9>>, <<"str", "expert">>}

\* rows of User, and rows of UserProfile with the two columns that
\* _determine_starting_level reads; current_skills lists its items in the
\* order of the stored dict
UserRows == {[id |-> 1]}
ProfileRows ==
    [current_skills : {<<>>} \cup {<<<<"python", score>>>> : score \in Scores},
     experience_years : {0, 6}]

\* session.query(...).filter(...).first(): a row, None, or an exception
first(rows) ==
    {Raised(e) : e \in StorageFaults}
    \cup {Returned(None)} \cup {Returned(Some(row)) : row \in rows}

\* the answers of the storage to the queries of one call of process
Storage == [user : first(UserRows), profile : first(ProfileRows)]

\* any(score > 0.7 for score in current_skills.values()): the comparison of
\* a text with a float raises TypeError
RECURSIVE any_above(_, _)
any_above(items, i) ==
    IF i > Len(items) THEN Returned(FALSE)
    ELSE IF items[i][2][1] = "str"
    THEN Raised(Exception("TypeError",
            "'>' not supported between instances of 'str' and 'float'"))
    ELSE IF items[i][2][2] > 7 THEN Returned(TRUE)
    ELSE any_above(items, i + 1)

\* LearningPathAgent._determine_starting_level
determine_starting_level(user_context) ==
    IF user_context.current_skills = <<>> /\ user_context.experience_level < 1
    THEN Returned("beginner")
    ELSE IF user_context.experience_level > 5 THEN Returned("advanced")
    ELSE LET found == any_above(user_context.current_skills, 1)
         IN  IF found.raised THEN Raised(found.exc[1])
             ELSE IF found.value[1] THEN Returned("advanced")
             ELSE Returned("intermediate")

\* ProfilingAgent._analyze_complete_profile: the query for the user, the
\* query for the profile, then asyncio.gather, which starts
\* _assess_skills_internal first, whose format call raises before the
\* language model is asked
analyze_complete_profile(payload, storage) ==
    IF getitem(payload, "user_id").raised THEN getitem(payload, "user_id")
    ELSE IF storage.user.raised THEN Raised(storage.user.exc[1])
    ELSE IF IsNone(storage.user.value[1])
    THEN Raised(Exception("ValueError",
                          "User not found: " \o ToString(payload["user_id"])))
    ELSE IF storage.profile.raised THEN Raised(storage.profile.exc[1])
    ELSE LET prompt == str_format(skill_assessment_fields, skill_assessment_kwargs)
         IN  IF prompt.raised THEN Raised(prompt.exc[1])
             ELSE Returned(Map1("profile_updated", 1))

\* LearningPathAgent._generate_learning_path: the query for the profile,
\* _determine_starting_level on its columns, then _generate_path_with_llm,
\* which formats its template first
generate_learning_path(payload, storage) ==
    IF getitem(payload, "user_id").raised THEN getitem(payload, "user_id")
    ELSE IF getitem(payload, "goal").raised THEN getitem(payload, "goal")
    ELSE IF storage.profile.raised THEN Raised(storage.profile.exc[1])
    ELSE IF IsNone(storage.profile.value[1])
    THEN Raised(Exception("ValueError",
                          "User profile not found: " \o ToString(payload["user_id"])))
    ELSE LET profile == storage.profile.value[1][1]
             current_level == determine_starting_level(
                 [current_skills |-> profile.current_skills,
                  experience_level |-> profile.experience_years])
             prompt == str_format(comprehensive_path_fields,
                                  comprehensive_path_kwargs)
         IN  IF current_level.raised THEN Raised(current_level.exc[1])
             ELSE IF prompt.raised THEN Raised(prompt.exc[1])
             ELSE Returned(Map1("path_generated", 1))

\* the branch of process for a message type: the handler's result, or the
\* exception it raises; storage is what the storage answers
handle(agent, message, storage) ==
    LET method == getattr(agent, handler_name(agent, message.message_type))
    IN  IF method.raised THEN Raised(method.exc[1])
        ELSE IF method.value[1] = "_analyze_complete_profile"
        THEN analyze_complete_profile(message.payload, storage)
        ELSE generate_learning_path(message.payload, storage)

\* whether the handler gets as far as "await asyncio.gather(*tasks)" of
\* _analyze_complete_profile, the one place where process of the two
\* providers is suspended: every other way through ends before any await
\* that yields
reaches_gather(agent, message, storage) ==
    LET method == getattr(agent, handler_name(agent, message.message_type))
    IN  /\ ~method.raised
        /\ method.value[1] = "_analyze_complete_profile"
        /\ ~getitem(message.payload, "user_id").raised
        /\ ~storage.user.raised
        /\ ~IsNone(storage.user.value[1])
        /\ ~storage.profile.raised

\* ProfilingAgent.process / LearningPathAgent.process, statement by
\* statement, for each answer of the storage: the way it took (path), the
\* hooks it called on itself in the order of the calls (hooks), whether it
\* was suspended on the way (awaits), and what it returned (outcome)
ConcreteTrace(agent, message) ==
    IF ~validate_input(agent, message)
    THEN {[path |-> "invalid", hooks |-> <<>>, awaits |-> FALSE,
           outcome |-> Returned(AgentResponse(agent.name, ERROR, None,
                                 Some(<<"Invalid input message">>), None, NoMetadata))]}
    ELSE LET msg == pre_process(agent, message)
             called == <<"pre_process">>
             handled == IF agent.kind = "ProfilingAgent"
                        THEN ProfilingHandled ELSE LearningPathHandled
         IN  IF msg.message_type \in handled
             THEN {LET result == handle(agent, msg, storage)
                   IN  IF result.raised
                       THEN [path |-> "fault", hooks |-> called,
                             awaits |-> reaches_gather(agent, msg, storage),
                             outcome |-> Returned(handle_error(agent, result.exc[1]))]
                       ELSE [path |-> "completed",
                             hooks |-> Append(called, "post_process"),
                             awaits |-> reaches_gather(agent, msg, storage),
                             outcome |-> Returned(post_process(agent,
                                AgentResponse(agent.name, COMPLETED, result.value,
                                              None, Some(0), NoMetadata)))] :
                   storage \in Storage}
             ELSE {[path |-> "unknown", hooks |-> called, awaits |-> FALSE,
                    outcome |-> Returned(AgentResponse(agent.name, ERROR, None,
                                Some(<<"Unknown message type: ", msg.message_type>>),
                                None, NoMetadata))]}

ConcreteProcess(agent, message) ==
    {t.outcome : t \in ConcreteTrace(agent, message)}

\* a tracker written against the contract whose results name the goal and
\* the user
ProgressReporter ==
    BaseAgent("progress_tracker_agent", "2.0.0", "ContractAgent", {"track_progress"})

\* a provider written against the abstract contract (BaseAgent.process is
\* abstract): it may return any response or raise
ContractResults(agent) ==
    IF agent = ProgressReporter THEN {Map2("goal", 1, "user_id", 2)}
    ELSE {Map1("goal", v) : v \in Vals}

ContractResponses(agent) ==
    {AgentResponse(agent.name, COMPLETED, Some(r), None, Some(0), NoMetadata) :
        r \in ContractResults(agent)}
    \cup {AgentResponse(agent.name, COMPLETED, Some(EmptyMap), None, None, NoMetadata),
          AgentResponse(agent.name, COMPLETED, None, None, Some(0), NoMetadata),
          AgentResponse(agent.name, WAITING, Some(Map1("goal", 2)), None, None, NoMetadata),
          AgentResponse(agent.name, IDLE, None, None, None, NoMetadata),
          AgentResponse(agent.name, PROCESSING, Some(EmptyMap), None, None, NoMetadata),
          AgentResponse(agent.name, ERROR, None, Some(<<"provider failed">>), None,
                        NoMetadata)}

ContractProcess(agent, message) ==
    {Returned(r) : r \in ContractResponses(agent)}
    \cup {Raised(Exception("RuntimeError", "provider bug"))}

\* a call of process, by the class of the provider.  Of a provider written
\* against the contract only the outcome is modelled: it is taken to call no
\* hook, and to be suspended on the way
Traces(agent, message) ==
    IF agent.kind \in {"ProfilingAgent", "LearningPathAgent"}
    THEN ConcreteTrace(agent, message)
    ELSE {[path |-> "contract", hooks |-> <<>>, awaits |-> TRUE, outcome |-> outcome] :
             outcome \in ContractProcess(agent, message)}

\* target_agent.process(message): what it returns or raises
process(agent, message) == {t.outcome : t \in Traces(agent, message)}

----------------------------------------------------------------------------
(* MasterOrchestrator: registry *)

\* the registry self.agents is a dict: a function on the registered names

\* MasterOrchestrator.register_agent
register_agent_keep(registry, agent) ==
    [n \in DOMAIN registry \cup {agent.name} |->
        IF n \in DOMAIN registry THEN registry[n] ELSE agent]

register_agent(registry, agent) ==
    [n \in DOMAIN registry \cup {agent.name} |->
        IF n = agent.name THEN agent ELSE registry[n]]

\* (an unregister that empties the registry)
unregister_agent_clear(registry, agent_name) ==
    IF agent_name \in DOMAIN registry THEN <<>> ELSE registry

\* MasterOrchestrator.unregister_agent
unregister_agent(registry, agent_name) ==
    IF agent_name \in DOMAIN registry
    THEN [n \in DOMAIN registry \ {agent_name} |-> registry[n]]
    ELSE registry

lookup_or_first(registry, name) ==
    IF name \in DOMAIN registry THEN Some(registry[name])
    ELSE IF DOMAIN registry = {} THEN None
    ELSE Some(registry[CHOOSE n \in DOMAIN registry : TRUE])

\* self.agents.get(name)
lookup(registry, name) ==
    IF name \in DOMAIN registry THEN Some(registry[name]) ELSE None

----------------------------------------------------------------------------
(* MasterOrchestrator: router *)

determine_target_agent_or_recipient(message) ==
    IF message.message_type \in DOMAIN routing_rules
    THEN Some(routing_rules[message.message_type])
    ELSE IF message.to_agent # "auto_route" THEN Some(message.to_agent) ELSE None

\* MasterOrchestrator._determine_target_agent
determine_target_agent(message) ==
    IF message.message_type \in DOMAIN routing_rules
    THEN Some(routing_rules[message.message_type])
    ELSE None

\* the order in which the endpoints of the application insert the keys of
\* a payload dict (execute_new_user_workflow: user_id, then goal, then the
\* fields of the profile)
KeyOrder == <<"user_id", "goal", "skills">>
insertion_order(d) == SelectSeq(KeyOrder, LAMBDA k : k \in DOMAIN d)

\* the orders in which the keys of a dict can have been inserted
RECURSIVE Orders(_)
Orders(keys) ==
    IF keys = {} THEN {<<>>}
    ELSE UNION {{<<k>> \o rest : rest \in Orders(keys \ {k})} : k \in keys}

\* str(dict): the items in insertion order
str(d, order) == [i \in 1..Len(order) |-> <<order[i], d[order[i]]>>]

\* hash(str): a number fixed while the interpreter process runs (the seed is
\* drawn when it starts), taken here to differ for different texts
hash(text) == <<"hash", text>>

\* a response the router builds itself
RouterError(parts) ==
    AgentResponse(OrchestratorName, ERROR, None, Some(parts), None, NoMetadata)

\* route_message up to "await target_agent.process(message)": either the
\* router's own error response, or the provider to await
\* asked lists the providers whose can_handle was called on the way
Resolved(response, asked) ==
    [tag |-> "return", response |-> Some(response), agent |-> None, asked |-> asked]
Dispatch(agent) ==
    [tag |-> "await", response |-> None, agent |-> Some(agent), asked |-> <<agent.name>>]

\* (the checks of route_message, for the variant that follows)
route_resolve_uncached(registry, message) ==
    LET target_agent_name == determine_target_agent(message)
    IN  IF IsNone(target_agent_name)
        THEN Resolved(RouterError(<<"No agent found for message type: ",
                                    message.message_type>>), <<>>)
        ELSE LET target_agent == lookup(registry, target_agent_name[1])
             IN  IF IsNone(target_agent)
                 THEN Resolved(RouterError(<<"Target agent not available: ",
                                             target_agent_name[1]>>), <<>>)
                 ELSE IF ~can_handle(target_agent[1], message.message_type)
                 THEN Resolved(RouterError(<<"Agent ", target_agent_name[1],
                                             " cannot handle ", message.message_type>>),
                               <<target_agent[1].name>>)
                 ELSE Dispatch(target_agent[1])

\* (a router that answers from the cache when it holds the key)
route_resolve_cached(registry, message) ==
    LET keys == {<<"response", message.message_type, hash(str(message.payload, o))>> :
                    o \in Orders(DOMAIN message.payload)} \cap DOMAIN redis
    IN  IF keys # {}
        THEN LET key == CHOOSE k \in keys : TRUE
                 cached == redis[key].value[2]
             IN  Resolved(AgentResponse(cached.agent, COMPLETED,
                                        Some(cached.response), None, None,
                                        NoMetadata), <<>>)
        ELSE route_resolve_uncached(registry, message)

route_resolve(registry, message) ==
    LET target_agent_name == determine_target_agent(message)
    IN  IF IsNone(target_agent_name)
        THEN Resolved(RouterError(<<"No agent found for message type: ",
                                    message.message_type>>), <<>>)
        ELSE LET target_agent == lookup(registry, target_agent_name[1])
             IN  IF IsNone(target_agent)
                 THEN Resolved(RouterError(<<"Target agent not available: ",
                                             target_agent_name[1]>>), <<>>)
                 ELSE IF ~can_handle(target_agent[1], message.message_type)
                 THEN Resolved(RouterError(<<"Agent ", target_agent_name[1],
                                             " cannot handle ", message.message_type>>),
                               <<target_agent[1].name>>)
                 ELSE Dispatch(target_agent[1])

\* settings.CACHE_TTL_SECONDS
CACHE_TTL_SECONDS == 3600

\* datetime.now().isoformat(): the text of the clock's reading
isoformat(now) == <<"iso", now>>

\* json.dumps: the text of a value
json_dumps(value) == <<"json", value>>

\* cache_key and cache_data as _cache_response builds them before the setex
\* call; order is the insertion order of message.payload, now the reading of
\* the clock
CacheEntry(message, order, response, now) ==
    [key |-> <<"response", message.message_type, hash(str(message.payload, order))>>,
     response |-> response.result[1], timestamp |-> isoformat(now),
     agent |-> response.agent_name]

\* redis_client.setex(cache_key, settings.CACHE_TTL_SECONDS,
\* json.dumps(cache_data)): the text replaces what the store holds under the
\* key and lives for the time given
setex(store, entry) ==
    [k \in DOMAIN store \cup {entry.key} |->
        IF k = entry.key
        THEN [value |-> json_dumps([response |-> entry.response,
                                    timestamp |-> entry.timestamp,
                                    agent |-> entry.agent]),
              ttl |-> CACHE_TTL_SECONDS]
        ELSE store[k]]

\* an entry's time to live ran out
expire(store, key) == [k \in DOMAIN store \ {key} |-> store[k]]

\* (a cache that takes every result that is not an error's)
cache_wanted_unless_error(response) ==
    response.status # ERROR /\ Truthy(response.result)

\* the condition under which _cache_response writes
cache_wanted(response) == response.status = COMPLETED /\ Truthy(response.result)

cache_write_unguarded(redis_fails) ==
    IF redis_fails THEN Raised(Exception("ConnectionError", "redis down"))
    ELSE Returned(TRUE)

\* the try/except around the setex call of _cache_response: redis_fails says
\* whether setex raised; the result is what _cache_response returns or raises
cache_write(redis_fails) == Returned(~redis_fails)

route_no_except(outcome) == outcome

\* (an except clause that answers as BaseAgent.handle_error does)
route_except_as_provider(outcome) ==
    IF outcome.raised
    THEN Returned(AgentResponse(OrchestratorName, ERROR, None,
                                Some(<<outcome.exc[1].msg>>), None,
                                {<<"error_type", outcome.exc[1].type>>}))
    ELSE outcome

\* the except clause of route_message
route_except(outcome) ==
    IF outcome.raised
    THEN Returned(RouterError(<<"Routing error: ", outcome.exc[1].msg>>))
    ELSE outcome

\* (a router that keeps the duration the provider measured)
set_execution_time_keep(response, elapsed) ==
    IF IsNone(response.execution_time)
    THEN [response EXCEPT !.execution_time = Some(elapsed)]
    ELSE response

\* the router's "response.execution_time = execution_time"
set_execution_time(response, elapsed) ==
    [response EXCEPT !.execution_time = Some(elapsed)]

----------------------------------------------------------------------------
(* One call of route_message or execute_workflow, from invocation to return *)

\* pc: "idle" (no call), "in_process" (suspended in await target_agent.process),
\*     "in_cache" (suspended in await run_in_executor of _cache_response,
\*     the executor has not run the setex call yet), "cache_ran" (the
\*     executor ran it, the coroutine has not resumed yet),
\*     "done" (returned), "raised" (an exception reached the caller)
\* processed: what the last process call returned or raised
\* response: the router's local variable response
\* delivered: the (provider, message) pairs handed to process, in order
\* can_handle_calls: the providers whose can_handle was called, in order
\* current_object: the dict object that the variable current_data holds
\* step_payloads: for each step envelope built, the dict object that its
\*          payload field is bound to
\* key_order: the order in which the keys of the payload dict of the message
\*     last handed to a provider were inserted
\* current_order: the same of the dict current_data
\* result_order: the same of the result dict of the response that process
\*     returned
\* called: of the last dispatch, the methods called on the provider from the
\*     router's call of process on, in the order of the calls
\* cache_attempts / cache_stored / cache_failed: of the last dispatch, the
\*     setex calls made, those that succeeded, and whether setex raised
NoMessage == AgentMessage("", "", "", EmptyMap)

IdleCall ==
    [pc |-> "idle", kind |-> "none", message |-> NoMessage, target |-> None,
     workflow_name |-> "", step |-> 0, initial_data |-> EmptyMap,
     current_data |-> EmptyMap, responses |-> <<>>, result |-> None,
     exc |-> None, processed |-> None, response |-> None, delivered |-> <<>>,
     can_handle_calls |-> <<>>, step_payloads |-> <<>>, current_object |-> "",
     key_order |-> <<>>, current_order |-> <<>>, result_order |-> <<>>,
     called |-> <<>>,
     cache_attempts |-> <<>>, cache_stored |-> <<>>, cache_failed |-> FALSE]

\* dict.copy
dict_copy(d) == d

\* "payload=current_data": the field is bound to the dict object itself, no
\* copy is made, so the envelope shows whatever the object holds later
bind(object) == [object |-> object]

\* (no copy: the working data is the caller's dict)
same_object(source) == source

\* the object "initial_data.copy()" makes: a dict of its own, named here
\* after the variable current_data that holds it
new_object(source) == "current_data"

\* the dict objects of a call of execute_workflow, and what a bound field
\* shows.  call.initial_data is what the caller passed; the caller's dict
\* holds that unless the loop's working data is the same object
heap(call) ==
    [initial_data |-> IF call.current_object = "initial_data"
                      THEN call.current_data ELSE call.initial_data,
     current_data |-> call.current_data]
deref(call, ref) == heap(call)[ref.object]

dict_update_keep(d, other) ==
    [k \in DOMAIN d \cup DOMAIN other |-> IF k \in DOMAIN d THEN d[k] ELSE other[k]]

\* dict.update
dict_update(d, other) ==
    [k \in DOMAIN d \cup DOMAIN other |-> IF k \in DOMAIN other THEN other[k] ELSE d[k]]

\* the insertion order after dict.update: keys already there keep their
\* place, new keys follow in the order of the other dict
order_update(order, other_order) ==
    order \o SelectSeq(other_order, LAMBDA k : \A i \in 1..Len(order) : order[i] # k)

\* the await of process begins: the provider receives the message
\* (envelopes filled from working data kept on the orchestrator, one dict
\* for all calls)
Await_shared(call, message, agent) ==
    LET shared == calls[CHOOSE c \in DOMAIN calls : TRUE].current_data
        sent == IF call.kind = "workflow"
                THEN [message EXCEPT !.payload = shared] ELSE message
    IN  [call EXCEPT !.pc = "in_process", !.message = sent, !.target = Some(agent),
                     !.processed = None, !.response = None, !.result_order = <<>>,
                     !.called = <<"process">>, !.cache_attempts = <<>>,
                     !.cache_stored = <<>>, !.cache_failed = FALSE,
                     !.delivered = Append(@, [agent |-> agent.name, message |-> sent])]

Await(call, message, agent) ==
    [call EXCEPT !.pc = "in_process", !.message = message, !.target = Some(agent),
                 !.processed = None, !.response = None, !.result_order = <<>>,
                 !.called = <<"process">>, !.cache_attempts = <<>>,
                 !.cache_stored = <<>>, !.cache_failed = FALSE,
                 !.delivered = Append(@, [agent |-> agent.name, message |-> message])]

\* the except clause of the loop body of execute_workflow
workflow_except(outcome) ==
    IF outcome.raised
    THEN AgentResponse(OrchestratorName, ERROR, None,
                       Some(<<"Workflow step error: ", outcome.exc[1].msg>>), None,
                       NoMetadata)
    ELSE outcome.value[1]

\* (a loop that stops at every response that is not completed)
workflow_breaks_unless_completed(response) == response.status # COMPLETED

workflow_breaks_never(response) == FALSE

\* whether the loop of execute_workflow leaves after this response
workflow_breaks(response) == response.status = ERROR

workflow_merges_completed(response) ==
    response.status = COMPLETED /\ Truthy(response.result)

\* whether the loop merges the response's result into current_data
workflow_merges(response) == Truthy(response.result)

RECURSIVE workflow_loop(_, _), workflow_after(_, _, _)

\* (a loop that starts two steps at once)
workflow_loop_eager(registry, call) ==
    LET workflow_steps == workflows[call.workflow_name]
    IN  IF call.step > Len(workflow_steps)
        THEN [call EXCEPT !.pc = "done"]
        ELSE LET message == AgentMessage(OrchestratorName, "auto_route",
                                         workflow_steps[call.step], call.current_data)
                 r == route_resolve(registry, message)
                 asked == [call EXCEPT !.can_handle_calls = @ \o r.asked]
             IN  IF r.tag = "await"
                 THEN [Await([asked EXCEPT !.key_order = call.current_order],
                             message, r.agent[1]) EXCEPT
                          !.delivered = @ \o
                              (IF call.step < Len(workflow_steps)
                               THEN <<[agent |-> r.agent[1].name,
                                       message |-> AgentMessage(OrchestratorName,
                                           "auto_route", workflow_steps[call.step + 1],
                                           call.current_data)]>>
                               ELSE <<>>)]
                 ELSE workflow_after(registry,
                                     [asked EXCEPT !.message = message,
                                                   !.result_order = <<>>],
                                     Returned(r.response[1]))

\* the for loop of execute_workflow from the start of step call.step to the
\* next await, or to the return
workflow_loop(registry, call) ==
    LET workflow_steps == workflows[call.workflow_name]
    IN  IF call.step > Len(workflow_steps)
        THEN [call EXCEPT !.pc = "done"]
        ELSE LET message == AgentMessage(OrchestratorName, "auto_route",
                                         workflow_steps[call.step], call.current_data)
                 r == route_resolve(registry, message)
                 asked == [call EXCEPT !.can_handle_calls = @ \o r.asked,
                                       !.step_payloads = Append(@, bind(call.current_object))]
             IN  IF r.tag = "await"
                 THEN Await([asked EXCEPT !.key_order = call.current_order],
                            message, r.agent[1])
                 ELSE workflow_after(registry,
                                     [asked EXCEPT !.message = message,
                                                   !.result_order = <<>>],
                                     Returned(r.response[1]))

\* the loop body after route_message returned (or raised) routed
workflow_after(registry, call, routed) ==
    LET response == workflow_except(routed)
        appended == [call EXCEPT !.responses = Append(@, response)]
    IN  IF routed.raised \/ workflow_breaks(response)
        THEN [appended EXCEPT !.pc = "done"]
        ELSE workflow_loop(registry,
                [appended EXCEPT
                    !.current_data = IF workflow_merges(response)
                                     THEN dict_update(@, response.result[1]) ELSE @,
                    !.current_order = IF workflow_merges(response)
                                      THEN order_update(@, call.result_order)
                                      ELSE @,
                    !.step = @ + 1])

execute_workflow_lenient(registry, call, workflow_name, initial_data, order) ==
    IF workflow_name \notin DOMAIN workflows
    THEN [call EXCEPT !.pc = "done", !.kind = "workflow",
                      !.workflow_name = workflow_name, !.initial_data = initial_data]
    ELSE workflow_loop(registry,
            [call EXCEPT !.kind = "workflow", !.workflow_name = workflow_name,
                         !.initial_data = initial_data,
                         !.current_data = dict_copy(initial_data),
                         !.current_order = order,
                         !.current_object = new_object("initial_data"), !.step = 1])

\* execute_workflow up to its first await; order is the insertion order of
\* the dict initial_data the caller built, which dict.copy keeps
execute_workflow(registry, call, workflow_name, initial_data, order) ==
    IF workflow_name \notin DOMAIN workflows
    THEN [call EXCEPT !.pc = "raised", !.kind = "workflow",
                      !.workflow_name = workflow_name, !.initial_data = initial_data,
                      !.exc = Some(Exception("ValueError",
                                               "Unknown workflow: " \o workflow_name))]
    ELSE workflow_loop(registry,
            [call EXCEPT !.kind = "workflow", !.workflow_name = workflow_name,
                         !.initial_data = initial_data,
                         !.current_data = dict_copy(initial_data),
                         !.current_order = order,
                         !.current_object = new_object("initial_data"), !.step = 1])

\* the orders in which the provider may have built the result dict of what
\* it returned
ResultOrders(processed) ==
    IF processed.raised \/ IsNone(processed.value[1].result) THEN {<<>>}
    ELSE Orders(DOMAIN processed.value[1].result[1])

\* route_message, called directly, up to its await; order is the insertion
\* order of the payload dict the caller built
route_message(registry, call, message, order) ==
    LET r == route_resolve(registry, message)
        started == [call EXCEPT !.kind = "route", !.message = message,
                                !.key_order = order,
                                !.can_handle_calls = @ \o r.asked]
    IN  IF r.tag = "await"
        THEN Await(started, message, r.agent[1])
        ELSE [started EXCEPT !.pc = "done", !.result = r.response]

\* (a router that looks its provider up again when it returns and raises
\* when the provider is gone)
route_returns_strict(registry, call, routed) ==
    IF call.kind = "route"
    THEN IF routed.raised \/ (~IsNone(call.target)
                                /\ call.target[1].name \notin DOMAIN registry)
         THEN [call EXCEPT !.pc = "raised",
                           !.exc = Some(Exception("KeyError", call.message.message_type))]
         ELSE [call EXCEPT !.pc = "done", !.result = routed.value]
    ELSE workflow_after(registry, call, routed)

\* route_message returns (or raises) routed to its caller: the direct caller,
\* or the loop of execute_workflow
route_returns(registry, call, routed) ==
    IF call.kind = "route"
    THEN IF routed.raised
         THEN [call EXCEPT !.pc = "raised", !.exc = routed.exc]
         ELSE [call EXCEPT !.pc = "done", !.result = routed.value]
    ELSE workflow_after(registry, call, routed)

\* process returned or raised processed: route_message goes on to the await
\* of the cache write, or to its return; result_order is the insertion order
\* of the result dict of the response returned, now the clock's reading
after_process(registry, call, processed, elapsed, result_order, now) ==
    LET resumed == [call EXCEPT !.processed = Some(processed),
                                !.result_order = result_order]
    IN  IF processed.raised
        THEN route_returns(registry, resumed, route_except(processed))
        ELSE LET response == set_execution_time(processed.value[1], elapsed)
             IN  IF cache_wanted(response)
                 THEN [resumed EXCEPT
                          !.pc = "in_cache", !.response = Some(response),
                          !.cache_attempts = <<CacheEntry(call.message, call.key_order,
                                                         response, now)>>]
                 ELSE route_returns(registry, resumed, route_except(Returned(response)))

\* the executor ran the lambda of _cache_response: setex stored the entry or
\* raised; the coroutine has not resumed yet
setex_ran(call, redis_fails) ==
    [call EXCEPT !.pc = "cache_ran", !.cache_failed = redis_fails,
                 !.cache_stored = IF redis_fails THEN <<>> ELSE call.cache_attempts]

\* the coroutine resumes from the await of run_in_executor: _cache_response
\* returns and route_message returns
after_cache(registry, call) ==
    LET written == cache_write(call.cache_failed)
    IN  route_returns(registry, call,
                      route_except(IF written.raised THEN Raised(written.exc[1])
                                   ELSE Returned(call.response[1])))

----------------------------------------------------------------------------
(* The status report *)

OrchestratorVersion == "1.0.0"

\* list(self.workflows.keys())
workflow_keys == <<"new_user_onboarding", "progress_check", "path_adaptation">>

\* BaseAgent.get_health_status, without the timestamp; no code assigns
\* self.status after __init__ set it to IDLE, and dependencies stays empty
get_health_status(agent) ==
    [name |-> agent.name, version |-> agent.version, status |-> IDLE,
     capabilities |-> agent.capabilities, dependencies |-> <<>>]

\* the providers whose get_health_status can raise: those of classes other
\* than the two of the application, which inherit BaseAgent's
CanFailHealth(registry) ==
    {n \in DOMAIN registry : registry[n].kind = "ContractAgent"}

\* (a report that leaves out the providers written against the contract)
get_system_status_builtin(registry, failing) ==
    Returned([orchestrator |->
                 [name |-> OrchestratorName,
                  version |-> OrchestratorVersion,
                  registered_agents |-> Cardinality(DOMAIN registry),
                  available_workflows |-> workflow_keys],
              agents |-> [n \in DOMAIN registry \ CanFailHealth(registry) |->
                             get_health_status(registry[n])]])

\* MasterOrchestrator.get_system_status, without the timestamp; failing is
\* the set of registered names whose get_health_status raises.  The loop has
\* no try/except, so the first such provider ends the call
get_system_status(registry, failing) ==
    IF failing \cap DOMAIN registry # {}
    THEN Raised(Exception("RuntimeError", "health check failed"))
    ELSE Returned([orchestrator |->
                      [name |-> OrchestratorName,
                       version |-> OrchestratorVersion,
                       registered_agents |-> Cardinality(DOMAIN registry),
                       available_workflows |-> workflow_keys],
                   agents |-> [n \in DOMAIN registry |->
                                  get_health_status(registry[n])]])

----------------------------------------------------------------------------
(* The new-user-onboarding endpoint *)

\* r.status.value: a status is modelled by its value
status_value(status) == status

\* (a summary that calls every list without an error a success)
execute_new_user_workflow_no_error(workflow_responses) ==
    LET successful_steps ==
            SelectSeq(workflow_responses, LAMBDA r : status_value(r.status) = "completed")
    IN  [success |-> \A k \in 1..Len(workflow_responses) :
                        workflow_responses[k].status # ERROR,
         total_steps |-> Len(workflow_responses),
         successful_steps |-> Len(successful_steps),
         results |-> [k \in 1..Len(workflow_responses) |->
                         [agent |-> workflow_responses[k].agent_name,
                          status |-> status_value(workflow_responses[k].status),
                          result |-> workflow_responses[k].result,
                          error |-> workflow_responses[k].error]]]

\* what execute_new_user_workflow returns for the list execute_workflow gave
\* it, without execution_time, request_id and timestamp
execute_new_user_workflow(workflow_responses) ==
    LET successful_steps ==
            SelectSeq(workflow_responses, LAMBDA r : status_value(r.status) = "completed")
    IN  [success |-> Len(successful_steps) = Len(workflow_responses),
         total_steps |-> Len(workflow_responses),
         successful_steps |-> Len(successful_steps),
         results |-> [k \in 1..Len(workflow_responses) |->
                         [agent |-> workflow_responses[k].agent_name,
                          status |-> status_value(workflow_responses[k].status),
                          result |-> workflow_responses[k].result,
                          error |-> workflow_responses[k].error]]]

----------------------------------------------------------------------------
(* The state machine *)

\* providers that get registered: the two the application builds, and
\* providers written against the contract under the names routing_rules uses
Providers ==
    {ProfilingAgent, LearningPathAgent,
     BaseAgent("profiling_agent", "2.0.0", "ContractAgent", {"profile_analysis"}),
     BaseAgent("learning_path_agent", "2.0.0", "ContractAgent",
               {"generate_learning_path"}),
     BaseAgent("content_curator_agent", "1.0.0", "ContractAgent", {"curate_content"}),
     BaseAgent("content_curator_agent", "1.1.0", "ContractAgent", {"rank_content"}),
     BaseAgent("progress_tracker_agent", "1.0.0", "ContractAgent", {"track_progress"})}

AgentNames == {routing_rules[t] : t \in DOMAIN routing_rules}

\* what callers send
MessageTypes == DOMAIN routing_rules \cup {"rank_content"}
Recipients == {"auto_route", "content_curator_agent"}
WorkflowNames == DOMAIN workflows \cup {"weekly_review"}
\* payloads callers send, and the durations the router measures
InputMaps == UNION {[D -> {1}] : D \in SUBSET {"user_id", "goal"}}
Elapsed == {1}
\* the readings of the clock when a cache entry is built
Clock == {1}
CallIds == {"c1"}

Init ==
    /\ agents = <<>>
    /\ calls = [c \in CallIds |-> IdleCall]
    /\ reg_log = <<>>
    /\ status_out = None
    /\ redis = <<>>

Register(agent) ==
    /\ agents' = register_agent(agents, agent)
    /\ UNCHANGED <<calls, reg_log, status_out, redis>>

Unregister(agent_name) ==
    /\ agents' = unregister_agent(agents, agent_name)
    /\ UNCHANGED <<calls, reg_log, status_out, redis>>

RouteMessage(c, message, order) ==
    /\ calls[c].pc = "idle"
    /\ calls' = [calls EXCEPT ![c] = route_message(agents, @, message, order)]
    /\ UNCHANGED <<agents, reg_log, status_out, redis>>

ExecuteWorkflow(c, workflow_name, initial_data, order) ==
    /\ calls[c].pc = "idle"
    /\ calls' = [calls EXCEPT ![c] = execute_workflow(agents, @, workflow_name,
                                                      initial_data, order)]
    /\ UNCHANGED <<agents, reg_log, status_out, redis>>

\* the provider's process is suspended in "await asyncio.gather(*tasks)":
\* it has called pre_process and has not returned
Suspended(call) == call.pc = "in_process" /\ Len(call.called) > 1

\* the provider's process runs on.  Called by route_message, process of one
\* of the application's providers runs to the await of asyncio.gather, where
\* the event loop gets control, or, on the ways that do not get there, to
\* its return; resumed from that await it runs to its return.  When process
\* returns or raises, route_message resumes in the same turn.  A provider
\* written against the contract is suspended from the call on
ProcessReturns(c) ==
    /\ calls[c].pc = "in_process" /\ calls[c].kind # "process"
    /\ \E t \in Traces(calls[c].target[1], calls[c].message),
          elapsed \in Elapsed, now \in Clock :
        IF t.path # "contract" /\ t.awaits /\ ~Suspended(calls[c])
        THEN calls' = [calls EXCEPT ![c].called = <<"process", "pre_process">>]
        ELSE /\ Suspended(calls[c]) => t.awaits
             /\ \E result_order \in ResultOrders(t.outcome) :
                    calls' = [calls EXCEPT ![c] =
                                after_process(agents,
                                              [@ EXCEPT !.called = <<"process">> \o t.hooks],
                                              t.outcome, elapsed, result_order, now)]
    /\ UNCHANGED <<agents, reg_log, status_out, redis>>

\* the executor thread runs the setex call: the store has the entry unless
\* the call raised
SetexRuns(c) ==
    /\ calls[c].pc = "in_cache"
    /\ \E redis_fails \in BOOLEAN :
            /\ calls' = [calls EXCEPT ![c] = setex_ran(@, redis_fails)]
            /\ redis' = IF redis_fails THEN redis
                        ELSE setex(redis, calls[c].cache_attempts[1])
    /\ UNCHANGED <<agents, reg_log, status_out>>

\* the coroutine of route_message resumes after the cache write
CacheReturns(c) ==
    /\ calls[c].pc = "cache_ran"
    /\ calls' = [calls EXCEPT ![c] = after_cache(agents, @)]
    /\ UNCHANGED <<agents, reg_log, status_out, redis>>

\* the time to live of an entry ran out
Expire(key) ==
    /\ key \in DOMAIN redis
    /\ redis' = expire(redis, key)
    /\ UNCHANGED <<agents, calls, reg_log, status_out>>

\* the caller takes the result; the call slot is free again
Return(c) ==
    /\ calls[c].pc \in {"done", "raised"}
    /\ calls' = [calls EXCEPT ![c] = IdleCall]
    /\ UNCHANGED <<agents, reg_log, status_out, redis>>

\* no call is in progress
Quiet == \A c \in DOMAIN calls : calls[c].pc = "idle"

\* One caller, any registry.  The store is unbounded: the number of entries
\* it holds when a call begins is capped by MaxHeld.  SpecCache has calls
\* that begin on a store that holds entries
Next ==
    \/ \E agent \in Providers : Register(agent)
    \/ \E agent_name \in AgentNames : Unregister(agent_name)
    \/ \E c \in DOMAIN calls, to \in Recipients, type \in MessageTypes, payload \in InputMaps :
            /\ Cardinality(DOMAIN redis) <= MaxHeld
            /\ RouteMessage(c, AgentMessage("api", to, type, payload),
                            insertion_order(payload))
    \/ \E c \in DOMAIN calls, w \in WorkflowNames, data \in InputMaps :
            /\ Cardinality(DOMAIN redis) <= MaxHeld
            /\ ExecuteWorkflow(c, w, data, insertion_order(data))
    \/ \E c \in DOMAIN calls : ProcessReturns(c)
    \/ \E c \in DOMAIN calls : SetexRuns(c)
    \/ \E c \in DOMAIN calls : CacheReturns(c)
    \/ \E c \in DOMAIN calls : Return(c)
    \/ \E key \in DOMAIN redis : Expire(key)

Spec == Init /\ [][Next]_vars

----------------------------------------------------------------------------
(* The registry alone: register_agent and unregister_agent applied in any
   order to any provider and name, each call logged *)

RegisterLogged(agent) ==
    /\ Len(reg_log) < MaxRegOps
    /\ agents' = register_agent(agents, agent)
    /\ reg_log' = Append(reg_log, [op |-> "register", name |-> agent.name,
                                    agent |-> Some(agent)])
    /\ UNCHANGED <<calls, status_out, redis>>

UnregisterLogged(agent_name) ==
    /\ Len(reg_log) < MaxRegOps
    /\ agents' = unregister_agent(agents, agent_name)
    /\ reg_log' = Append(reg_log, [op |-> "unregister", name |-> agent_name,
                                    agent |-> None])
    /\ UNCHANGED <<calls, status_out, redis>>

NextRegistry ==
    \/ \E agent \in Providers : RegisterLogged(agent)
    \/ \E agent_name \in AgentNames : UnregisterLogged(agent_name)

SpecRegistry == Init /\ [][NextRegistry]_vars

----------------------------------------------------------------------------
(* The status report next to the registry: get_system_status called between
   register_agent and unregister_agent calls *)

GetSystemStatus(failing) ==
    /\ status_out' = Some(get_system_status(agents, failing))
    /\ UNCHANGED <<agents, calls, reg_log, redis>>

NextStatus ==
    \/ \E agent \in Providers : Register(agent)
    \/ \E agent_name \in AgentNames : Unregister(agent_name)
    \/ \E failing \in SUBSET CanFailHealth(agents) : GetSystemStatus(failing)

SpecStatus == Init /\ [][NextStatus]_vars

----------------------------------------------------------------------------
(* The registry that lifespan builds *)

\* (a start-up that registers a provider for every name of routing_rules)
lifespan_agents_complete ==
    register_agent(
        register_agent(
            register_agent(register_agent(<<>>, ProfilingAgent), LearningPathAgent),
            BaseAgent("content_curator_agent", "1.0.0", "ContractAgent",
                      {"curate_content"})),
        BaseAgent("progress_tracker_agent", "1.0.0", "ContractAgent",
                  {"track_progress"}))

\* the registry after lifespan's two register_agent calls
lifespan_agents ==
    register_agent(register_agent(<<>>, ProfilingAgent), LearningPathAgent)

\* the callers of the specifications with two calls in progress
ConcurrentIds == {"c1", "c2"}

\* the application after start-up, with two call slots
InitConcurrent ==
    /\ agents = lifespan_agents
    /\ calls = [c \in ConcurrentIds |-> IdleCall]
    /\ reg_log = <<>>
    /\ status_out = None
    /\ redis = <<>>

\* register_agent called while no call is in progress
RegisterQuiet(agent) ==
    /\ Quiet
    /\ Register(agent)

----------------------------------------------------------------------------
(* The response cache next to the router: two callers of route_message and
   execute_workflow on the application after start-up, to which a content
   curator and a tracker are added; the store keeps its entries from call to
   call until they expire *)

CachedProviders ==
    {BaseAgent("content_curator_agent", "1.0.0", "ContractAgent", {"curate_content"}),
     ProgressReporter}
CachedTypes == {"curate_content"}
CachedPayloads == {Map2("user_id", 1, "goal", 1)}
CachedWorkflows == {"path_adaptation"}
CachedData == {EmptyMap}

NextCache ==
    \/ \E agent \in CachedProviders : Register(agent)
    \/ \E c \in DOMAIN calls, type \in CachedTypes, payload \in CachedPayloads :
        \E order \in Orders(DOMAIN payload) :
            RouteMessage(c, AgentMessage("api", "auto_route", type, payload), order)
    \/ \E c \in DOMAIN calls, w \in CachedWorkflows, data \in CachedData :
        \E order \in Orders(DOMAIN data) :
            ExecuteWorkflow(c, w, data, order)
    \/ \E c \in DOMAIN calls : ProcessReturns(c)
    \/ \E c \in DOMAIN calls : SetexRuns(c)
    \/ \E c \in DOMAIN calls : CacheReturns(c)
    \/ \E c \in DOMAIN calls : Return(c)
    \/ \E key \in DOMAIN redis : Expire(key)

SpecCache == InitConcurrent /\ [][NextCache]_vars

----------------------------------------------------------------------------
(* Two callers at once: calls of execute_workflow and route_message that
   interleave at their await points and write to the one store, on a
   registry that changes only while no call is in progress *)

ConcurrentProviders ==
    {BaseAgent("progress_tracker_agent", "1.0.0", "ContractAgent", {"track_progress"})}
ConcurrentWorkflows == {"path_adaptation", "progress_check"}
ConcurrentTypes == {"profile_analysis"}
ConcurrentPayloads == {Map1("user_id", 1)}

NextConcurrent ==
    \/ \E agent \in ConcurrentProviders : RegisterQuiet(agent)
    \/ \E c \in DOMAIN calls, type \in ConcurrentTypes, payload \in ConcurrentPayloads :
        \E order \in Orders(DOMAIN payload) :
            RouteMessage(c, AgentMessage("api", "auto_route", type, payload), order)
    \/ \E c \in DOMAIN calls, w \in ConcurrentWorkflows, data \in ConcurrentPayloads :
        \E order \in Orders(DOMAIN data) :
            ExecuteWorkflow(c, w, data, order)
    \/ \E c \in DOMAIN calls : ProcessReturns(c)
    \/ \E c \in DOMAIN calls : SetexRuns(c)
    \/ \E c \in DOMAIN calls : CacheReturns(c)
    \/ \E c \in DOMAIN calls : Return(c)
    \/ \E key \in DOMAIN redis : Expire(key)

SpecConcurrent == InitConcurrent /\ [][NextConcurrent]_vars

----------------------------------------------------------------------------
(* The application as it starts: messages and workflows on the registry that
   lifespan builds, which nothing changes afterwards.  Neither provider
   returns a completed response, so no call reaches the cache write *)

InitStartup ==
    /\ agents = lifespan_agents
    /\ calls = [c \in CallIds |-> IdleCall]
    /\ reg_log = <<>>
    /\ status_out = None
    /\ redis = <<>>

StartupPayloads == UNION {[D -> {1}] : D \in SUBSET Keys}

NextStartup ==
    \/ \E c \in DOMAIN calls, type \in MessageTypes, payload \in StartupPayloads :
            RouteMessage(c, AgentMessage("api", "auto_route", type, payload),
                         insertion_order(payload))
    \/ \E c \in DOMAIN calls, w \in DOMAIN workflows, data \in StartupPayloads :
            ExecuteWorkflow(c, w, data, insertion_order(data))
    \/ \E c \in DOMAIN calls : ProcessReturns(c)
    \/ \E c \in DOMAIN calls : Return(c)

SpecStartup == InitStartup /\ [][NextStartup]_vars

----------------------------------------------------------------------------
(* The two providers of the application alone: process called with any
   message, under any answer of the storage *)

ProviderTypes ==
    ProfilingAgent.capabilities \cup LearningPathAgent.capabilities
ProviderPayloads ==
    UNION {[D -> {1}] : D \in SUBSET {"user_id", "goal", "assessment_data"}}

\* agent.process(message) is called: it runs to its return, or to the
\* await at which it is suspended
Process(c, agent, message) ==
    /\ calls[c].pc = "idle"
    /\ \E t \in Traces(agent, message) :
            calls' = [calls EXCEPT ![c] =
                        [@ EXCEPT !.pc = IF t.awaits THEN "in_process" ELSE "done",
                                  !.kind = "process",
                                  !.message = message, !.target = Some(agent),
                                  !.delivered = <<[agent |-> agent.name,
                                                   message |-> message]>>,
                                  !.called = <<"process">>
                                             \o (IF t.awaits THEN <<"pre_process">>
                                                 ELSE t.hooks),
                                  !.processed = IF t.awaits THEN None
                                                ELSE Some(t.outcome)]]
    /\ UNCHANGED <<agents, reg_log, status_out, redis>>

\* the tasks of asyncio.gather ended and process resumes, to its return
ProcessResumes(c) ==
    /\ calls[c].pc = "in_process" /\ calls[c].kind = "process"
    /\ \E t \in Traces(calls[c].target[1], calls[c].message) :
            /\ t.awaits
            /\ calls' = [calls EXCEPT ![c] =
                            [@ EXCEPT !.pc = "done",
                                      !.called = <<"process">> \o t.hooks,
                                      !.processed = Some(t.outcome)]]
    /\ UNCHANGED <<agents, reg_log, status_out, redis>>

NextProvider ==
    \/ \E c \in DOMAIN calls, agent \in {ProfilingAgent, LearningPathAgent},
          type \in ProviderTypes, payload \in ProviderPayloads :
            Process(c, agent, AgentMessage("api", agent.name, type, payload))
    \/ \E c \in DOMAIN calls : ProcessResumes(c)
    \/ \E c \in DOMAIN calls : Return(c)

SpecProvider == Init /\ [][NextProvider]_vars

----------------------------------------------------------------------------
(* Properties *)

\* what the last route_message of a call returned: the result of a direct
\* call, the last response of a workflow
LastOutcome(call) ==
    IF call.kind = "route" THEN call.result[1] ELSE call.responses[Len(call.responses)]

\* in this step call c routes a new envelope
Routes(c) == calls'[c].message # calls[c].message /\ calls'[c].kind # "none"

\* C1: an envelope whose operation has no entry in the routing table makes
\* route_message return at once with status error, and no provider's process
\* is invoked, whatever is registered and whoever the envelope is addressed to
C1_UnknownOperation ==
    \A c \in DOMAIN calls :
        (calls[c].kind = "route"
            /\ calls[c].message.message_type \notin DOMAIN routing_rules)
        => /\ calls[c].pc = "done"
           /\ calls[c].result[1].status = ERROR
           /\ calls[c].delivered = <<>>
           /\ calls[c].processed = None

\* an unrouted operation was sent to a registered provider that lists it
C1_Witness ==
    \E c \in DOMAIN calls :
        /\ calls[c].kind = "route" /\ calls[c].pc = "done"
        /\ calls[c].message.message_type = "rank_content"
        /\ calls[c].message.to_agent = "content_curator_agent"
        /\ "content_curator_agent" \in DOMAIN agents
        /\ "rank_content" \in agents["content_curator_agent"].capabilities
        /\ calls[c].result[1].status = ERROR

\* C2: when the routing table maps the operation to a registered provider
\* whose capabilities do not list it, route_message returns the router's
\* "cannot handle" error and the provider's process is not called
C2_DriftGuard ==
    [][\A c \in DOMAIN calls :
        LET type == calls'[c].message.message_type
            name == routing_rules[type]
        IN  (/\ Routes(c)
             /\ type \in DOMAIN routing_rules
             /\ name \in DOMAIN agents
             /\ type \notin agents[name].capabilities)
            => /\ calls'[c].pc = "done"
               /\ LastOutcome(calls'[c]).status = ERROR
               /\ LastOutcome(calls'[c]).agent_name = OrchestratorName
               /\ LastOutcome(calls'[c]).error =
                      Some(<<"Agent ", name, " cannot handle ", type>>)
               /\ calls'[c].delivered = calls[c].delivered]_vars

\* curate_content was routed while the registered content curator did not
\* list it, directly and as the third step of a workflow
C2_Witness ==
    \E c \in DOMAIN calls :
        /\ calls[c].pc = "done" /\ calls[c].kind = "workflow"
        /\ Len(calls[c].responses) = 3
        /\ calls[c].message.message_type = "curate_content"
        /\ "content_curator_agent" \in DOMAIN agents
        /\ "curate_content" \notin agents["content_curator_agent"].capabilities
        /\ LastOutcome(calls[c]).error =
               Some(<<"Agent ", "content_curator_agent", " cannot handle ",
                      "curate_content">>)
        /\ Len(calls[c].delivered) = 2

\* the shallow merge of a step's result into the data: the result's keys
\* overwrite, the other keys stay
Merged(data, result) ==
    IF IsNone(result) THEN data
    ELSE [k \in DOMAIN data \cup DOMAIN result[1] |->
            IF k \in DOMAIN result[1] THEN result[1][k] ELSE data[k]]

\* data merged, in order, with the results of the first n responses
RECURSIVE Threaded(_, _, _)
Threaded(data, responses, n) ==
    IF n = 0 THEN data
    ELSE Merged(Threaded(data, responses, n - 1), responses[n].result)

\* C3: the payload delivered to step k of a workflow is initial_data merged,
\* in step order, with the results of steps 1..k-1, and the envelope carries
\* the k-th configured operation
C3_DataThreading ==
    \A c \in DOMAIN calls :
        calls[c].kind = "workflow" =>
            \A k \in 1..Len(calls[c].delivered) :
                /\ calls[c].delivered[k].message.payload =
                       Threaded(calls[c].initial_data, calls[c].responses, k - 1)
                /\ calls[c].delivered[k].message.message_type =
                       workflows[calls[c].workflow_name][k]

\* the third step received a key of initial_data untouched and a key that
\* step 1 added and step 2 overwrote
C3_Witness ==
    \E c \in DOMAIN calls :
        /\ calls[c].kind = "workflow"
        /\ Len(calls[c].delivered) = 3
        /\ calls[c].initial_data = Map1("user_id", 1)
        /\ calls[c].responses[1].result = Some(Map1("goal", 1))
        /\ calls[c].responses[2].result = Some(Map1("goal", 2))
        /\ calls[c].delivered[2].message.payload = Map2("user_id", 1, "goal", 1)
        /\ calls[c].delivered[3].message.payload = Map2("user_id", 1, "goal", 2)

\* the index of the first response with status error, 0 if there is none
FirstError(responses) ==
    IF \E k \in 1..Len(responses) : responses[k].status = ERROR
    THEN CHOOSE k \in 1..Len(responses) :
            /\ responses[k].status = ERROR
            /\ \A j \in 1..(k - 1) : responses[j].status # ERROR
    ELSE 0

\* C4: when step k is the first step with status error, execute_workflow
\* returns k responses, no provider was invoked for a later step, and the
\* merges of the steps before k stay in the working data
C4_ShortCircuit ==
    \A c \in DOMAIN calls :
        LET call == calls[c]
            k == FirstError(call.responses)
        IN  (call.kind = "workflow" /\ k > 0)
            => /\ call.pc = "done"
               /\ Len(call.responses) = k
               /\ Len(call.delivered) <= k
               /\ call.current_data = Threaded(call.initial_data, call.responses, k - 1)

\* a workflow of three steps whose second step returned an error after the
\* first had completed with a result
C4_Witness ==
    \E c \in DOMAIN calls :
        /\ calls[c].kind = "workflow" /\ calls[c].pc = "done"
        /\ Len(workflows[calls[c].workflow_name]) = 3
        /\ Len(calls[c].responses) = 2
        /\ calls[c].responses[1].status = COMPLETED
        /\ calls[c].responses[1].result = Some(Map1("goal", 2))
        /\ calls[c].responses[2].status = ERROR
        /\ Len(calls[c].delivered) = 2
        /\ calls[c].current_data["goal"] = 2

\* the index of the last logged call of op for name, 0 if there is none
LastOp(op, name) ==
    LET at == {i \in 1..Len(reg_log) : reg_log[i].op = op /\ reg_log[i].name = name}
    IN  IF at = {} THEN 0 ELSE CHOOSE i \in at : \A j \in at : j <= i

\* the names registered by the logged calls and not unregistered since
LoggedNames ==
    {reg_log[i].name : i \in {j \in 1..Len(reg_log) :
        reg_log[j].op = "register"
        /\ LastOp("unregister", reg_log[j].name) < j}}

\* C5: registering a name that is present replaces its entry and keeps the
\* size; the size is the number of distinct names registered (and not removed
\* since), so it grows only with a new name; lookup gives the instance
\* registered last; every entry is filed under its own name
C5_RegistryReplacement ==
    /\ Cardinality(DOMAIN agents) = Cardinality(LoggedNames)
    /\ \A n \in DOMAIN agents : agents[n].name = n
    /\ \A n \in LoggedNames :
           lookup(agents, n) = reg_log[LastOp("register", n)].agent

\* two different providers were registered under one name, one after the
\* other, on the empty registry
C5_Witness ==
    /\ Len(reg_log) = 2
    /\ reg_log[1].op = "register" /\ reg_log[2].op = "register"
    /\ reg_log[1].name = reg_log[2].name
    /\ reg_log[1].agent # reg_log[2].agent
    /\ Cardinality(DOMAIN agents) = 1
    /\ lookup(agents, reg_log[2].name) = reg_log[2].agent

\* the fields of a response that the caller's business logic reads
SameOutcome(a, b) ==
    /\ a.agent_name = b.agent_name
    /\ a.status = b.status
    /\ a.result = b.result
    /\ a.error = b.error

\* the response route_message returned for the last dispatch of the call
Dispatched(call) ==
    IF call.kind = "route" THEN call.result[1]
    ELSE call.responses[Len(call.delivered)]

\* C6: when setex fails, route_message still returns what the provider's
\* process returned (same agent_name, status, result and error) and raises
\* nothing
C6_CacheIsolation ==
    \A c \in DOMAIN calls :
        (calls[c].cache_failed /\ calls[c].pc # "cache_ran")
        => /\ calls[c].pc \notin {"raised", "in_cache"}
           /\ calls[c].kind = "route" => calls[c].pc = "done"
           /\ calls[c].kind = "workflow" =>
                  Len(calls[c].responses) >= Len(calls[c].delivered)
           /\ SameOutcome(Dispatched(calls[c]), calls[c].processed[1].value[1])
           /\ Dispatched(calls[c]).status = COMPLETED

\* a direct route_message returned the provider's completed response although
\* the cache write had been attempted and had failed
C6_Witness ==
    \E c \in DOMAIN calls :
        /\ calls[c].kind = "route" /\ calls[c].pc = "done"
        /\ calls[c].cache_failed
        /\ Len(calls[c].cache_attempts) = 1 /\ calls[c].cache_stored = <<>>
        /\ calls[c].result[1].status = COMPLETED
        /\ calls[c].result[1].agent_name = "profiling_agent"

\* C7: route_message never raises, and execute_workflow raises only for a
\* workflow name that is not configured; a fault raised by a provider's
\* process comes back as a response with status error
C7_Propagation ==
    \A c \in DOMAIN calls :
        /\ calls[c].pc = "raised"
           => (calls[c].kind = "workflow"
               /\ calls[c].workflow_name \notin DOMAIN workflows)
        /\ (calls[c].pc \in {"done", "in_process", "in_cache", "cache_ran"}
            /\ Len(calls[c].delivered) > 0 /\ ~IsNone(calls[c].processed)
            /\ calls[c].processed[1].raised)
           => /\ calls[c].pc = "done"
              /\ Dispatched(calls[c]).status = ERROR
              /\ ~IsNone(Dispatched(calls[c]).error)

\* a provider's process raised, in a direct call and in the second step of a
\* workflow, and the caller got a response with status error
C7_Witness ==
    \E c \in DOMAIN calls :
        /\ calls[c].kind = "workflow" /\ calls[c].pc = "done"
        /\ ~IsNone(calls[c].processed)
        /\ calls[c].processed[1].raised
        /\ Len(calls[c].responses) = 2
        /\ calls[c].responses[2].status = ERROR
        /\ calls[c].responses[2].agent_name = OrchestratorName

\* C8: execute_workflow with a name that is not configured raises to the
\* caller before anything is done: no envelope, no provider call, no cache
\* write, no response list
C8_UnknownWorkflow ==
    \A c \in DOMAIN calls :
        (calls[c].kind = "workflow" /\ calls[c].workflow_name \notin DOMAIN workflows)
        => /\ calls[c].pc = "raised"
           /\ calls[c].exc = Some(Exception("ValueError",
                                   "Unknown workflow: " \o calls[c].workflow_name))
           /\ calls[c].message = NoMessage
           /\ calls[c].delivered = <<>>
           /\ calls[c].cache_attempts = <<>>
           /\ calls[c].responses = <<>>
           /\ calls[c].result = None

\* an unconfigured workflow was requested while providers were registered
C8_Witness ==
    \E c \in DOMAIN calls :
        /\ calls[c].kind = "workflow" /\ calls[c].pc = "raised"
        /\ calls[c].workflow_name = "weekly_review"
        /\ calls[c].exc[1].msg = "Unknown workflow: weekly_review"
        /\ calls[c].initial_data = Map2("user_id", 1, "goal", 1)
        /\ Cardinality(DOMAIN agents) >= 2

\* C9 (as claimed): an envelope addressed to a provider by name is dispatched
\* to the provider registered under that name
C9_ExplicitAddressing ==
    \A c \in DOMAIN calls :
        (calls[c].kind = "route"
            /\ calls[c].message.to_agent # "auto_route"
            /\ calls[c].delivered # <<>>)
        => calls[c].delivered[1].agent = calls[c].message.to_agent

\* C10 (as claimed): process of a provider is never called with an envelope
\* that this provider's validate_input rejects (checked for the two classes
\* whose validate_input the source defines)
C10_RouterValidates ==
    \A c \in DOMAIN calls :
        LET call == calls[c]
        IN  (/\ call.delivered # <<>>
             /\ call.target[1].kind \in {"ProfilingAgent", "LearningPathAgent"})
            => validate_input(call.target[1],
                              call.delivered[Len(call.delivered)].message)

\* C11: when the name the routing table gives is not in the registry at the
\* lookup, route_message returns the router's "Target agent not available"
\* error, and neither can_handle nor process of any provider is called
C11_ProviderUnavailable ==
    [][\A c \in DOMAIN calls :
        LET type == calls'[c].message.message_type
            name == routing_rules[type]
        IN  (/\ Routes(c)
             /\ type \in DOMAIN routing_rules
             /\ name \notin DOMAIN agents)
            => /\ calls'[c].pc = "done"
               /\ LastOutcome(calls'[c]) =
                      AgentResponse(OrchestratorName, ERROR, None,
                                    Some(<<"Target agent not available: ", name>>),
                                    None, NoMetadata)
               /\ calls'[c].delivered = calls[c].delivered
               /\ calls'[c].can_handle_calls = calls[c].can_handle_calls]_vars

\* track_progress was routed directly while other providers, but no progress
\* tracker, were registered
C11_Witness ==
    \E c \in DOMAIN calls :
        /\ calls[c].kind = "route" /\ calls[c].pc = "done"
        /\ calls[c].message.message_type = "track_progress"
        /\ "progress_tracker_agent" \notin DOMAIN agents
        /\ Cardinality(DOMAIN agents) >= 2
        /\ calls[c].result[1].agent_name = OrchestratorName
        /\ calls[c].result[1].error =
               Some(<<"Target agent not available: ", "progress_tracker_agent">>)
        /\ calls[c].delivered = <<>> /\ calls[c].can_handle_calls = <<>>

\* C12: the steps of one execute_workflow run one at a time and in the
\* configured order: a step is handed to its provider only when the
\* responses of all earlier steps are there, so at most one is in flight
C12_SequentialOrdering ==
    \A c \in DOMAIN calls :
        LET call == calls[c]
        IN  call.kind = "workflow" =>
            /\ Len(call.delivered) <= Len(call.responses) + 1
            /\ call.pc \in {"in_process", "in_cache", "cache_ran"}
               => (Len(call.delivered) = Len(call.responses) + 1
                   /\ call.step = Len(call.delivered))
            /\ call.pc \in {"done", "raised"}
               => Len(call.delivered) <= Len(call.responses)
            /\ \A k \in 1..Len(call.delivered) :
                   /\ k <= Len(workflows[call.workflow_name])
                   /\ call.delivered[k].message.message_type =
                          workflows[call.workflow_name][k]

\* the third step is in flight after the first two returned their responses
C12_Witness ==
    \E c \in DOMAIN calls :
        /\ calls[c].kind = "workflow" /\ calls[c].pc = "in_process"
        /\ Len(calls[c].delivered) = 3 /\ Len(calls[c].responses) = 2
        /\ calls[c].delivered[3].message.message_type = "generate_learning_path"
        /\ calls[c].delivered[1].message.message_type = "track_progress"

\* data merged, in order, with the results of those of the first n responses
\* that have status completed
RECURSIVE ThreadedCompleted(_, _, _)
ThreadedCompleted(data, responses, n) ==
    IF n = 0 THEN data
    ELSE IF workflow_merges_completed(responses[n])
         THEN Merged(ThreadedCompleted(data, responses, n - 1), responses[n].result)
         ELSE ThreadedCompleted(data, responses, n - 1)

\* C13 (as claimed): only the result of a response with status completed is
\* merged into the working data; a response with status idle, processing or
\* waiting leaves the payload of the later steps as it was
C13_MergeEligibility ==
    \A c \in DOMAIN calls :
        calls[c].kind = "workflow" =>
            \A k \in 1..Len(calls[c].delivered) :
                calls[c].delivered[k].message.payload =
                    ThreadedCompleted(calls[c].initial_data, calls[c].responses, k - 1)

\* the last part of an error text
ErrorTail(error) == error[1][Len(error[1])]

\* C14 (as claimed): when a provider's process raises, route_message returns
\* an error response whose error is the description of the fault and whose
\* metadata has an error_type entry with the fault's type
C14_SafetyNetMetadata ==
    \A c \in DOMAIN calls :
        (calls[c].pc = "done" /\ Len(calls[c].delivered) > 0
            /\ ~IsNone(calls[c].processed) /\ calls[c].processed[1].raised)
        => /\ Dispatched(calls[c]).status = ERROR
           /\ ErrorTail(Dispatched(calls[c]).error) = calls[c].processed[1].exc[1].msg
           /\ <<"error_type", calls[c].processed[1].exc[1].type>>
                  \in Dispatched(calls[c]).metadata

\* C14 (amended): when a provider's process raises, route_message returns an
\* error response of the orchestrator whose error is "Routing error: "
\* followed by the description of the fault, with no result, no execution
\* time and empty metadata
C14_SafetyNet ==
    \A c \in DOMAIN calls :
        (calls[c].pc = "done" /\ Len(calls[c].delivered) > 0
            /\ ~IsNone(calls[c].processed) /\ calls[c].processed[1].raised)
        => Dispatched(calls[c]) =
               AgentResponse(OrchestratorName, ERROR, None,
                             Some(<<"Routing error: ",
                                    calls[c].processed[1].exc[1].msg>>),
                             None, NoMetadata)

\* a directly routed operation reached a provider whose process raised
C14_Witness ==
    \E c \in DOMAIN calls :
        /\ calls[c].kind = "route" /\ calls[c].pc = "done"
        /\ Len(calls[c].delivered) = 1
        /\ ~IsNone(calls[c].processed)
        /\ calls[c].processed[1] = Raised(Exception("RuntimeError", "provider bug"))
        /\ calls[c].result[1].error = Some(<<"Routing error: ", "provider bug">>)
        /\ calls[c].result[1].metadata = {}

\* the set of the elements of a list
Range(seq) == {seq[i] : i \in 1..Len(seq)}

\* C15: get_system_status reports the orchestrator's name and version, the
\* size of the registry, the list of the names of all workflows, in the
\* order in which __init__ configures them, and one health entry per
\* registered provider under its name, and leaves the registry as it was
C15_StatusSnapshot ==
    [][status_out' # status_out
       => /\ agents' = agents
          /\ ~status_out'[1].raised
             => LET report == status_out'[1].value[1]
                IN  /\ report.orchestrator.name = OrchestratorName
                    /\ report.orchestrator.version = OrchestratorVersion
                    /\ report.orchestrator.registered_agents =
                           Cardinality(DOMAIN agents)
                    /\ report.orchestrator.available_workflows =
                           <<"new_user_onboarding", "progress_check",
                             "path_adaptation">>
                    /\ Range(report.orchestrator.available_workflows) =
                           DOMAIN workflows
                    /\ DOMAIN report.agents = DOMAIN agents
                    /\ \A n \in DOMAIN agents :
                           /\ report.agents[n].name = n
                           /\ report.agents[n].version = agents[n].version
                           /\ report.agents[n].capabilities = agents[n].capabilities
                           /\ report.agents[n].status = IDLE]_vars

\* a report was returned for a registry of three providers, one of them
\* written against the contract
C15_Witness ==
    /\ ~IsNone(status_out) /\ ~status_out[1].raised
    /\ Cardinality(DOMAIN agents) = 3
    /\ "content_curator_agent" \in DOMAIN agents
    /\ DOMAIN status_out[1].value[1].agents = DOMAIN agents
    /\ status_out[1].value[1].orchestrator.registered_agents = 3

\* C16 (as claimed): get_system_status never raises; when the health check
\* of one provider fails, the report still comes back
C16_StatusRobust ==
    ~IsNone(status_out) => ~status_out[1].raised

\* what a direct route_message of an operation returns on a registry
RoutedNow(registry, type) ==
    route_message(registry, IdleCall,
                  AgentMessage("api", "auto_route", type, Map1("user_id", 1)),
                  <<"user_id">>)

\* C17: unregister_agent removes the entry of the name if there is one and
\* does nothing otherwise, and leaves every other entry as it was; after any
\* sequence of register and unregister calls a name is in the registry
\* exactly when its last register came after its last unregister, and an
\* operation routed to a name that is not in the registry gets the router's
\* "Target agent not available" error without any provider being called
C17_Unregister ==
    /\ [](/\ DOMAIN agents = LoggedNames
          /\ \A type \in DOMAIN routing_rules :
                routing_rules[type] \notin LoggedNames
                => LET call == RoutedNow(agents, type)
                   IN  /\ call.pc = "done"
                       /\ call.result[1] =
                              RouterError(<<"Target agent not available: ",
                                            routing_rules[type]>>)
                       /\ call.delivered = <<>>)
    /\ [][(Len(reg_log') = Len(reg_log) + 1
            /\ reg_log'[Len(reg_log')].op = "unregister")
          => LET name == reg_log'[Len(reg_log')].name
             IN  /\ name \notin DOMAIN agents'
                 /\ DOMAIN agents' = DOMAIN agents \ {name}
                 /\ \A n \in DOMAIN agents' : agents'[n] = agents[n]
                 /\ name \notin DOMAIN agents => agents' = agents]_vars

\* a name was registered and unregistered, then unregistered once more while
\* absent, and another provider stayed registered throughout
C17_Witness ==
    /\ Len(reg_log) = 4
    /\ reg_log[1].op = "register" /\ reg_log[1].name = "profiling_agent"
    /\ reg_log[2].op = "register" /\ reg_log[2].name = "learning_path_agent"
    /\ reg_log[3].op = "unregister" /\ reg_log[3].name = "profiling_agent"
    /\ reg_log[4].op = "unregister" /\ reg_log[4].name = "profiling_agent"
    /\ DOMAIN agents = {"learning_path_agent"}
    /\ agents["learning_path_agent"] = LearningPathAgent
    /\ RoutedNow(agents, "profile_analysis").result[1].error =
           Some(<<"Target agent not available: ", "profiling_agent">>)

\* the envelope passes resolution, lookup and the capability check
PassesChecks(registry, message) ==
    /\ message.message_type \in DOMAIN routing_rules
    /\ routing_rules[message.message_type] \in DOMAIN registry
    /\ message.message_type
           \in registry[routing_rules[message.message_type]].capabilities

\* the key under which _cache_response stores the response to the envelope
\* the call last routed
KeyOf(call) ==
    <<"response", call.message.message_type,
      hash(str(call.message.payload, call.key_order))>>

\* C18: route_message never answers from the cache: every envelope that
\* passes resolution, lookup and the capability check, sent directly or as a
\* step of a workflow, is handed to the provider's process, exactly once,
\* whatever the cache holds, also an entry for the same operation and payload;
\* no other envelope is handed to a provider, and routing leaves the cache
\* as it was
C18_WriteOnlyCache ==
    /\ [][\A c \in DOMAIN calls :
            /\ (Routes(c) /\ PassesChecks(agents, calls'[c].message))
               => /\ calls'[c].pc = "in_process"
                  /\ calls'[c].delivered =
                         Append(calls[c].delivered,
                                [agent |-> routing_rules[calls'[c].message.message_type],
                                 message |-> calls'[c].message])
                  /\ calls'[c].called = <<"process">>
                  /\ redis' = redis
            /\ ~(Routes(c) /\ PassesChecks(agents, calls'[c].message))
               => \/ calls'[c].delivered = calls[c].delivered
                  \/ calls'[c] = IdleCall]_vars
    /\ [](\A c \in DOMAIN calls :
            /\ calls[c].kind = "route" => Len(calls[c].delivered) <= 1
            /\ \A j, k \in 1..Len(calls[c].delivered) :
                   j # k => calls[c].delivered[j].message # calls[c].delivered[k].message)

\* The store holds the entry that one caller's curate_content call wrote,
\* that caller has not resumed yet, and the other caller's envelope of the
\* same operation and payload is with the provider
C18_Witness ==
    \E c, d \in DOMAIN calls :
        /\ c # d
        /\ calls[c].kind = "route" /\ calls[c].pc = "cache_ran"
        /\ calls[c].cache_stored # <<>>
        /\ calls[d].kind = "route" /\ calls[d].pc = "in_process"
        /\ Len(calls[d].delivered) = 1
        /\ calls[d].message.message_type = "curate_content"
        /\ calls[d].message.payload = Map2("user_id", 1, "goal", 1)
        /\ KeyOf(calls[d]) = KeyOf(calls[c])
        /\ KeyOf(calls[d]) \in DOMAIN redis

\* C19 (as claimed): the payload of the envelope of step k is a snapshot of
\* the working data: it still shows what was delivered to step k after the
\* results of step k and of later steps were merged
C19_EnvelopeSnapshot ==
    \A c \in DOMAIN calls :
        calls[c].kind = "workflow" =>
            \A k \in 1..Len(calls[c].delivered) :
                deref(calls[c], calls[c].step_payloads[k]) =
                    calls[c].delivered[k].message.payload

\* the responses route_message can return for an envelope when it is the
\* only call in progress
RouteAlone(registry, message) ==
    LET Finished(call) ==
            IF call.pc = "in_cache"
            THEN {after_cache(registry, setex_ran(call, redis_fails)).result[1] :
                     redis_fails \in BOOLEAN}
            ELSE {call.result[1]}
        Alone(order) ==
            LET started == route_message(registry, IdleCall, message, order)
            IN  IF started.pc = "done" THEN {started.result[1]}
                ELSE UNION {UNION {Finished(after_process(registry, started, processed,
                                                           elapsed, result_order, now)) :
                                      result_order \in ResultOrders(processed),
                                      now \in Clock} :
                               processed \in process(started.target[1], message),
                               elapsed \in Elapsed}
    IN  UNION {Alone(order) : order \in Orders(DOMAIN message.payload)}

\* C20: calls that interleave at their await points, on a registry that
\* changes only while no call is in progress, do not affect each other: a
\* step changes one call only and writes the shared store only under the key
\* of that call's own envelope; every envelope and every response of a call
\* of execute_workflow is what the call would have had alone, the payload of
\* step k being the call's own initial_data merged with its own earlier
\* results and the response of step k being one that route_message gives for
\* that envelope; and a direct route_message returns a response it gives for
\* its envelope alone, whatever the other call does and the store holds
C20_CrossCallIndependence ==
    /\ [][/\ agents' # agents => (Quiet /\ calls' = calls)
          /\ \A c, d \in DOMAIN calls :
                c # d => (calls'[c] = calls[c] \/ calls'[d] = calls[d])
          /\ \A key \in DOMAIN redis' :
                (key \notin DOMAIN redis \/ redis'[key] # redis[key])
                => \E c \in DOMAIN calls :
                        /\ calls'[c] # calls[c]
                        /\ key = KeyOf(calls[c])
                        /\ calls[c].response[1].result =
                               Some(redis'[key].value[2].response)]_vars
    /\ [](\A c \in DOMAIN calls :
            /\ calls[c].kind = "workflow" =>
                /\ \A k \in 1..Len(calls[c].delivered) :
                       calls[c].delivered[k].message =
                           AgentMessage(OrchestratorName, "auto_route",
                               workflows[calls[c].workflow_name][k],
                               Threaded(calls[c].initial_data, calls[c].responses, k - 1))
                /\ calls[c].current_data =
                       Threaded(calls[c].initial_data, calls[c].responses,
                                Len(calls[c].responses))
                /\ \A k \in 1..Len(calls[c].responses) :
                       calls[c].responses[k] \in
                           RouteAlone(agents,
                               AgentMessage(OrchestratorName, "auto_route",
                                   workflows[calls[c].workflow_name][k],
                                   Threaded(calls[c].initial_data,
                                            calls[c].responses, k - 1)))
            /\ (calls[c].kind = "route" /\ calls[c].pc = "done")
               => calls[c].result[1] \in RouteAlone(agents, calls[c].message))

\* two calls of execute_workflow with the same initial_data are both waiting
\* for a provider, each past its first step, with different working data,
\* while the store holds the entry one of them wrote for its first step
C20_Witness ==
    /\ calls["c1"].kind = "workflow" /\ calls["c2"].kind = "workflow"
    /\ calls["c1"].pc = "in_process" /\ calls["c2"].pc = "in_process"
    /\ Len(calls["c1"].responses) >= 1 /\ Len(calls["c2"].responses) >= 1
    /\ calls["c1"].current_data # calls["c2"].current_data
    /\ calls["c1"].initial_data = calls["c2"].initial_data
    /\ \E key \in DOMAIN redis :
            /\ key[2] = "track_progress"
            /\ Some(redis[key].value[2].response) = calls["c1"].responses[1].result
            /\ Some(redis[key].value[2].response) # calls["c2"].responses[1].result

\* C21: when the provider that the routing table names is registered, can
\* handle the operation and returns a completed response with a result,
\* route_message returns that response, under the provider's name, with the
\* execution time the router measured in place of the provider's own; the
\* responses the router builds itself carry the orchestrator's name
C21_SuccessfulDispatch ==
    \A c \in DOMAIN calls :
        /\ (calls[c].pc = "done" /\ Len(calls[c].delivered) > 0
               /\ ~IsNone(calls[c].processed) /\ ~calls[c].processed[1].raised
               /\ calls[c].processed[1].value[1].status = COMPLETED
               /\ Truthy(calls[c].processed[1].value[1].result))
           => LET sent == calls[c].delivered[Len(calls[c].delivered)]
                  made == calls[c].processed[1].value[1]
                  got == Dispatched(calls[c])
              IN  /\ got.status = COMPLETED
                  /\ got.result = made.result
                  /\ got.agent_name = sent.agent
                  /\ got.agent_name = routing_rules[sent.message.message_type]
                  /\ ~IsNone(got.execution_time)
                  /\ got.execution_time[1] \in Elapsed
                  /\ got.execution_time[1] >= 0
        /\ (calls[c].pc = "done" /\ calls[c].kind = "route"
               /\ (calls[c].delivered = <<>> \/ calls[c].processed[1].raised))
           => calls[c].result[1].agent_name = OrchestratorName

\* the provider registered as profiling_agent returned a completed response
\* with its own duration 0 and the caller got it with the router's duration
C21_Witness ==
    \E c \in DOMAIN calls :
        /\ calls[c].kind = "route" /\ calls[c].pc = "done"
        /\ ~IsNone(calls[c].processed) /\ ~calls[c].processed[1].raised
        /\ calls[c].processed[1].value[1] =
               AgentResponse("profiling_agent", COMPLETED, Some(Map1("goal", 2)),
                             None, Some(0), NoMetadata)
        /\ calls[c].result[1] =
               AgentResponse("profiling_agent", COMPLETED, Some(Map1("goal", 2)),
                             None, Some(1), NoMetadata)

\* C22: for the list that execute_workflow("new_user_onboarding") returned,
\* the endpoint reports total_steps = the length of the list,
\* successful_steps = the number of responses with status completed, success
\* exactly when the two are equal, and one result entry per response in order
C22_EndpointSummary ==
    \A c \in DOMAIN calls :
        (calls[c].kind = "workflow" /\ calls[c].pc = "done"
            /\ calls[c].workflow_name = "new_user_onboarding")
        => LET responses == calls[c].responses
               report == execute_new_user_workflow(responses)
               completed == {k \in 1..Len(responses) : responses[k].status = COMPLETED}
           IN  /\ report.total_steps = Len(responses)
               /\ report.successful_steps = Cardinality(completed)
               /\ report.success <=> (Cardinality(completed) = Len(responses))
               /\ Len(report.results) = Len(responses)
               /\ \A k \in 1..Len(responses) :
                      /\ report.results[k].agent = responses[k].agent_name
                      /\ report.results[k].status = responses[k].status
                      /\ report.results[k].result = responses[k].result
                      /\ report.results[k].error = responses[k].error

\* the onboarding workflow ran all three steps without an error, the last
\* response having status waiting, so the endpoint reports no success
C22_Witness ==
    \E c \in DOMAIN calls :
        /\ calls[c].kind = "workflow" /\ calls[c].pc = "done"
        /\ calls[c].workflow_name = "new_user_onboarding"
        /\ Len(calls[c].responses) = 3
        /\ calls[c].responses[3].status = WAITING
        /\ execute_new_user_workflow(calls[c].responses).successful_steps = 2
        /\ ~execute_new_user_workflow(calls[c].responses).success

\* C23: the list execute_workflow returns has one response per attempted
\* step, in step order: at least one and at most as many as the workflow has
\* steps, a response with status error only in the last place, and as many
\* responses as steps when none has status error
C23_OutcomeListShape ==
    \A c \in DOMAIN calls :
        (calls[c].kind = "workflow" /\ calls[c].pc = "done")
        => LET responses == calls[c].responses
               steps == workflows[calls[c].workflow_name]
           IN  /\ Len(responses) >= 1 /\ Len(responses) <= Len(steps)
               /\ \A k \in 1..(Len(responses) - 1) : responses[k].status # ERROR
               /\ (\A k \in 1..Len(responses) : responses[k].status # ERROR)
                  => Len(responses) = Len(steps)
               /\ Len(calls[c].step_payloads) = Len(responses)
               /\ \A k \in 1..Len(calls[c].delivered) :
                      /\ calls[c].delivered[k].message.message_type = steps[k]
                      /\ responses[k].agent_name
                             \in {calls[c].delivered[k].agent, OrchestratorName}

\* a workflow ran all its steps although one of them came back with status
\* waiting
C23_Witness ==
    \E c \in DOMAIN calls :
        /\ calls[c].kind = "workflow" /\ calls[c].pc = "done"
        /\ Len(calls[c].responses) = Len(workflows[calls[c].workflow_name])
        /\ calls[c].responses[1].status = WAITING
        /\ \A k \in 1..Len(calls[c].responses) : calls[c].responses[k].status # ERROR

\* the last dispatch of the call went to one of the application's providers
\* and route_message has returned
ConcreteDone(call) ==
    /\ call.pc = "done" /\ Len(call.delivered) > 0
    /\ ~IsNone(call.processed)
    /\ call.target[1].kind \in {"ProfilingAgent", "LearningPathAgent"}

\* C24 (as claimed): for every dispatch that reaches a provider, pre_process
\* is called before process and post_process after it, each exactly once,
\* and route_message returns the status, result and error that process
\* produced
C24_HookOrdering ==
    \A c \in DOMAIN calls :
        ConcreteDone(calls[c])
        => /\ calls[c].called = <<"pre_process", "process", "post_process">>
           /\ SameOutcome(Dispatched(calls[c]), calls[c].processed[1].value[1])

\* what setex stores for the response made by a provider when the clock
\* reads now
StoredFor(made, now) ==
    [value |-> <<"json", [response |-> made.result[1], timestamp |-> <<"iso", now>>,
                          agent |-> made.agent_name]>>,
     ttl |-> 3600]

\* C25: route_message attempts a cache write exactly for a response with
\* status completed and a non-empty result, never for the router's own
\* errors, a provider's error, another status or an absent or empty result;
\* the write puts into the store, under a key made of the operation and the
\* hash of the payload's text, the result, the text of the clock's reading
\* and the producer's name, to live for CACHE_TTL_SECONDS; nothing else
\* enters the store or changes an entry
C25_CacheWriteCondition ==
    /\ [](\A c \in DOMAIN calls :
            LET call == calls[c]
            IN  /\ Len(call.cache_attempts) <= 1
                /\ call.cache_attempts # <<>>
                   => LET made == call.processed[1].value[1]
                          sent == call.delivered[Len(call.delivered)].message
                      IN  /\ ~call.processed[1].raised
                          /\ made.status = COMPLETED
                          /\ ~IsNone(made.result) /\ made.result[1] # EmptyMap
                          /\ \E now \in Clock :
                                call.cache_attempts[1] =
                                    [key |-> <<"response", sent.message_type,
                                               hash(str(sent.payload, call.key_order))>>,
                                     response |-> made.result[1],
                                     timestamp |-> <<"iso", now>>,
                                     agent |-> made.agent_name]
                /\ (call.pc = "done" /\ Len(call.delivered) > 0
                       /\ ~IsNone(call.processed) /\ ~call.processed[1].raised
                       /\ call.processed[1].value[1].status = COMPLETED
                       /\ ~IsNone(call.processed[1].value[1].result)
                       /\ call.processed[1].value[1].result[1] # EmptyMap)
                   => Len(call.cache_attempts) = 1
                /\ call.pc \in {"in_cache", "cache_ran"}
                   => Len(call.cache_attempts) = 1)
    /\ [][/\ \A c \in DOMAIN calls :
                (calls[c].pc = "in_cache" /\ calls'[c].pc = "cache_ran")
                => LET made == calls[c].processed[1].value[1]
                       sent == calls[c].delivered[Len(calls[c].delivered)].message
                       key == <<"response", sent.message_type,
                                hash(str(sent.payload, calls[c].key_order))>>
                   IN  IF calls'[c].cache_failed
                       THEN redis' = redis
                       ELSE /\ DOMAIN redis' = DOMAIN redis \cup {key}
                            /\ \E now \in Clock : redis'[key] = StoredFor(made, now)
                            /\ \A k \in DOMAIN redis \ {key} : redis'[k] = redis[k]
          /\ \A key \in DOMAIN redis' :
                (key \notin DOMAIN redis \/ redis'[key] # redis[key])
                => \E c \in DOMAIN calls :
                        /\ calls[c].pc = "in_cache" /\ calls'[c].pc = "cache_ran"
                        /\ calls[c].processed[1].value[1].status = COMPLETED
                        /\ Truthy(calls[c].processed[1].value[1].result)]_vars

\* in one workflow the first step came back with status waiting and a
\* result, and nothing was written; the second came back completed with a
\* result, and the store holds its entry and no other
C25_Witness ==
    \E c \in DOMAIN calls :
        /\ calls[c].kind = "workflow" /\ calls[c].pc = "cache_ran"
        /\ Len(calls[c].responses) = 1
        /\ calls[c].responses[1].status = WAITING
        /\ Truthy(calls[c].responses[1].result)
        /\ DOMAIN redis = {KeyOf(calls[c])}
        /\ \E now \in Clock :
                redis[KeyOf(calls[c])] = StoredFor(calls[c].processed[1].value[1], now)
        /\ redis[KeyOf(calls[c])].value[2].agent = "learning_path_agent"
        /\ calls[c].message.message_type = "generate_learning_path"

\* an error field that is there and has some text
HasErrorText(error) ==
    ~IsNone(error) /\ \E i \in 1..Len(error[1]) : error[1][i] # ""

\* the responses a finished call handed to its caller
ReturnedResponses(call) ==
    IF call.pc # "done" THEN {}
    ELSE IF call.kind = "route" THEN {call.result[1]}
    ELSE {call.responses[k] : k \in 1..Len(call.responses)}

\* C26 (as claimed): every response that route_message returns or that is in
\* a list execute_workflow returns has status error exactly when its error
\* field is not empty
C26_ErrorInvariant ==
    \A c \in DOMAIN calls :
        \A response \in ReturnedResponses(calls[c]) :
            (response.status = ERROR) <=> HasErrorText(response.error)

\* C27: execute_workflow works on a copy, so the dict the caller passed as
\* initial_data holds the same keys and values during and after the call,
\* whatever the steps' results merged into the working data
C27_CallerDataUntouched ==
    \A c \in DOMAIN calls :
        (calls[c].kind = "workflow" /\ calls[c].workflow_name \in DOMAIN workflows)
        => /\ heap(calls[c]).initial_data = calls[c].initial_data
           /\ calls[c].current_object # "initial_data"

\* a workflow returned after a step's result had overwritten a key that the
\* caller's initial_data has
C27_Witness ==
    \E c \in DOMAIN calls :
        /\ calls[c].kind = "workflow" /\ calls[c].pc = "done"
        /\ calls[c].initial_data = Map2("user_id", 1, "goal", 1)
        /\ calls[c].current_data["goal"] = 2
        /\ heap(calls[c]).initial_data["goal"] = 1

\* the ways process of the application's provider can have taken to the
\* outcome of the last dispatch of a call
PathsOf(call) ==
    LET sent == call.delivered[Len(call.delivered)]
    IN  {t.path : t \in {u \in ConcreteTrace(call.target[1], sent.message) :
                            u.outcome = call.processed[1]}}

\* C28: process of ProfilingAgent and of LearningPathAgent raises nothing to
\* the router: a failed validation, a message type it has no branch for and
\* a fault of a handler each give a response with status error under the
\* provider's name, and for a caught exception the metadata has the type of
\* the exception as error_type
C28_ProviderSelfReporting ==
    \A c \in DOMAIN calls :
        (Len(calls[c].delivered) > 0 /\ ~IsNone(calls[c].processed)
            /\ calls[c].target[1].kind \in {"ProfilingAgent", "LearningPathAgent"})
        => LET made == calls[c].processed[1].value[1]
           IN  /\ ~calls[c].processed[1].raised
               /\ made.agent_name = calls[c].target[1].name
               /\ PathsOf(calls[c]) # {}
               /\ PathsOf(calls[c]) \cap {"invalid", "unknown", "fault"} # {}
                  => made.status = ERROR /\ IsNone(made.result)
               /\ "fault" \in PathsOf(calls[c])
                  => \E storage \in Storage :
                        LET raised == handle(calls[c].target[1],
                                calls[c].delivered[Len(calls[c].delivered)].message,
                                storage)
                        IN  /\ raised.raised
                            /\ made.metadata = {<<"error_type", raised.exc[1].type>>}
                            /\ made.error = Some(<<raised.exc[1].msg>>)

\* the learning path provider found no profile for the user, its handler
\* raised ValueError, and process returned the provider's error response
\* with error_type ValueError
C28_Witness ==
    \E c \in DOMAIN calls :
        /\ calls[c].kind = "process" /\ calls[c].pc = "done"
        /\ calls[c].target[1] = LearningPathAgent
        /\ calls[c].message.message_type = "generate_learning_path"
        /\ PathsOf(calls[c]) = {"fault"}
        /\ calls[c].processed[1].value[1] =
               AgentResponse("learning_path_agent", ERROR, None,
                             Some(<<"User profile not found: 1">>), None,
                             {<<"error_type", "ValueError">>})

\* C29: a registry change does not touch a call that is waiting for its
\* provider: the call ends with an outcome of the provider it had looked up,
\* registered or not by then; a workflow resolves each step against the
\* registry as it is when the step starts, so a target unregistered between
\* two steps gives the "Target agent not available" error and ends the
\* workflow; and route_message raises in no interleaving
C29_RegistryRace ==
    /\ [][\A c \in DOMAIN calls :
            /\ agents' # agents => calls'[c] = calls[c]
            /\ (calls[c].pc = "in_process" /\ calls'[c] # calls[c]
                   /\ ~Suspended(calls'[c]))
               => /\ calls'[c].pc # "raised"
                  /\ \E p \in process(calls[c].target[1], calls[c].message) :
                        LET got == IF calls'[c].pc = "in_cache"
                                   THEN calls'[c].response[1]
                                   ELSE IF calls[c].kind = "route"
                                        THEN calls'[c].result[1]
                                        ELSE calls'[c].responses[calls[c].step]
                        IN  IF p.raised
                            THEN got = route_except(p).value[1]
                            ELSE SameOutcome(got, p.value[1])
            /\ (calls[c].kind = "workflow"
                   /\ calls[c].pc \in {"in_process", "in_cache", "cache_ran"}
                   /\ Len(calls'[c].responses) > Len(calls[c].responses)
                   /\ calls[c].step < Len(workflows[calls[c].workflow_name])
                   /\ calls'[c].responses[calls[c].step].status # ERROR)
               => LET type == workflows[calls[c].workflow_name][calls[c].step + 1]
                      name == routing_rules[type]
                  IN  /\ name \notin DOMAIN agents
                         => /\ calls'[c].pc = "done"
                            /\ Len(calls'[c].responses) = calls[c].step + 1
                            /\ calls'[c].responses[calls[c].step + 1] =
                                   RouterError(<<"Target agent not available: ", name>>)
                            /\ calls'[c].delivered = calls[c].delivered
                      /\ (name \in DOMAIN agents
                             /\ type \in agents[name].capabilities)
                         => /\ calls'[c].pc = "in_process"
                            /\ calls'[c].target = Some(agents[name])]_vars
    /\ [](\A c \in DOMAIN calls :
            calls[c].kind = "route" => calls[c].pc # "raised")

\* a directly routed message is with the profiling provider, which has been
\* unregistered since the lookup
C29_Witness ==
    \E c \in DOMAIN calls :
        /\ calls[c].kind = "route" /\ calls[c].pc = "in_process"
        /\ calls[c].target = Some(ProfilingAgent)
        /\ "profiling_agent" \notin DOMAIN agents

\* C30: on the registry built at start-up, with profiling_agent and
\* learning_path_agent only, every workflow returns a list that ends in an
\* error: new_user_onboarding at most three responses, the error at the
\* curate_content step at the latest, progress_check and path_adaptation one
\* response, the "Target agent not available" error for the progress tracker
C30_StartupReachability ==
    \A c \in DOMAIN calls :
        (calls[c].kind = "workflow" /\ calls[c].pc = "done")
        => LET responses == calls[c].responses
           IN  /\ Len(responses) >= 1
               /\ responses[Len(responses)].status = ERROR
               /\ calls[c].workflow_name = "new_user_onboarding"
                  => /\ Len(responses) <= 3
                     /\ FirstError(responses) <= 3
                     /\ Len(responses) = 3
                        => responses[3] =
                               RouterError(<<"Target agent not available: ",
                                             "content_curator_agent">>)
               /\ calls[c].workflow_name \in {"progress_check", "path_adaptation"}
                  => responses =
                         <<RouterError(<<"Target agent not available: ",
                                         "progress_tracker_agent">>)>>

\* the onboarding workflow, started with the user's id and goal for a user
\* the storage knows, ended at its first step with the error response of
\* the profiling provider
C30_Witness ==
    \E c \in DOMAIN calls :
        /\ calls[c].kind = "workflow" /\ calls[c].pc = "done"
        /\ calls[c].workflow_name = "new_user_onboarding"
        /\ calls[c].initial_data = Map2("user_id", 1, "goal", 1)
        /\ agents = lifespan_agents
        /\ Len(calls[c].responses) = 1
        /\ calls[c].responses[1].agent_name = "profiling_agent"
        /\ calls[c].responses[1].status = ERROR
        /\ calls[c].responses[1].metadata = {<<"error_type", "KeyError">>}

====
